---- MODULE Spec2Model ----
(***************************************************************************)
(* A model of ivy.Container (src/ivy/core/container.py): a dict subclass   *)
(* holding a tree of nested containers and leaf values, addressed by       *)
(* slash-delimited key chains.                                             *)
(*                                                                         *)
(* Python values are records tagged by their type.  A str is a sequence of *)
(* one-character strings, so that split('/'), '/'.join and the test        *)
(* '/' in key are computed, not assumed.  A dict (and a Container, which   *)
(* is a dict) is a sequence of key/value entries in insertion order.       *)
(***************************************************************************)
EXTENDS Integers, Sequences, FiniteSets, TLC

VARIABLES m, cont, op, args, ret, nsets, disk, handles, heap

vars == <<m, cont, op, args, ret, nsets, disk, handles, heap>>

----------------------------------------------------------------------------
(* Python values *)

None == [type |-> "NoneType"]

PyInt(n) == [type |-> "int", val |-> n]

Bool(b) == [type |-> "bool", val |-> b]

str(s) == [type |-> "str", val |-> s]

dict(items) == [type |-> "dict", items |-> items]

\* a Container instance holding the given entries (no construction logic)
Branch(items) == [type |-> "Container", items |-> items]

\* a raised exception, as the outcome of a call
Raise(exc) == [type |-> "raise", exc |-> exc]

IsRaise(v) == v.type = "raise"

isinstance_dict(v) == v.type \in {"dict", "Container"}

isinstance_Container(v) == v.type = "Container"

----------------------------------------------------------------------------
(* str *)

ord == ("/" :> 47) @@ ("_" :> 95) @@ ("a" :> 97) @@ ("b" :> 98) @@ ("f" :> 102)

\* s < t for two str (lexicographic by code point)
RECURSIVE StrLt(_, _)
StrLt(s, t) ==
    IF t = <<>> THEN FALSE
    ELSE IF s = <<>> THEN TRUE
    ELSE IF Head(s) = Head(t) THEN StrLt(Tail(s), Tail(t))
    ELSE ord[Head(s)] < ord[Head(t)]

\* '/' in s
HasSlash(s) == \E i \in 1..Len(s) : s[i] = "/"

\* s.split('/')
RECURSIVE split(_)
split(s) ==
    IF s = <<>> THEN << <<>> >>
    ELSE LET r == split(Tail(s))
         IN  IF Head(s) = "/" THEN << <<>> >> \o r
             ELSE << <<Head(s)>> \o Head(r) >> \o Tail(r)

\* '/'.join(segs)
RECURSIVE join(_)
join(segs) ==
    IF segs = <<>> THEN <<>>
    ELSE IF Len(segs) = 1 THEN segs[1]
    ELSE segs[1] \o <<"/">> \o join(Tail(segs))

----------------------------------------------------------------------------
(* dict *)

Entry(k, v) == [k |-> k, v |-> v]

dict_keys(d) == {d.items[i].k : i \in 1..Len(d.items)}

IndexOf(d, k) == CHOOSE i \in 1..Len(d.items) : d.items[i].k = k

\* dict.__getitem__
dict_getitem(d, k) ==
    IF k \in dict_keys(d) THEN d.items[IndexOf(d, k)].v ELSE Raise("KeyError")

\* dict.__setitem__: an existing key keeps its position, a new key is appended
dict_setitem(d, k, v) ==
    IF k \in dict_keys(d)
    THEN [d EXCEPT !.items = [@ EXCEPT ![IndexOf(d, k)] = Entry(k, v)]]
    ELSE [d EXCEPT !.items = Append(@, Entry(k, v))]

RemoveAt(s, i) == SubSeq(s, 1, i - 1) \o SubSeq(s, i + 1, Len(s))

\* sorted(d.items()): keys are unique, so the order is the order of the keys
RECURSIVE sorted(_)
sorted(items) ==
    IF items = <<>> THEN <<>>
    ELSE LET i == CHOOSE i \in 1..Len(items) :
                    \A j \in 1..Len(items) : j # i => StrLt(items[i].k, items[j].k)
         IN  <<items[i]>> \o sorted(RemoveAt(items, i))

----------------------------------------------------------------------------
(* Container: construction and key-chain assignment *)

RECURSIVE Container(_), InitLoop(_, _), setitem(_, _, _), SetWalk(_, _, _)
RECURSIVE SetWalk_PlainDict(_, _, _)

\* SetWalk creating a plain dict, not a Container, for a missing key
SetWalk_PlainDict(c, ks, val) ==
    IF Len(ks) = 1
    THEN IF isinstance_dict(c) THEN dict_setitem(c, ks[1], val)
         ELSE Raise("TypeError")
    ELSE IF ~isinstance_dict(c) THEN Raise("TypeError")
         ELSE LET c1 == IF ks[1] \notin dict_keys(c)
                        THEN dict_setitem(c, ks[1], dict(<<>>))
                        ELSE c
                  sub == SetWalk_PlainDict(dict_getitem(c1, ks[1]), Tail(ks), val)
              IN  IF IsRaise(sub) THEN sub ELSE dict_setitem(c1, ks[1], sub)

\* the walk of set_at_key_chain from node c along the remaining keys ks
SetWalk(c, ks, val) ==
    IF Len(ks) = 1
    THEN IF isinstance_dict(c) THEN dict_setitem(c, ks[1], val)
         ELSE Raise("TypeError")
    ELSE IF ~isinstance_dict(c) THEN Raise("TypeError")
         ELSE LET c1 == IF ks[1] \notin dict_keys(c)
                        THEN dict_setitem(c, ks[1], Branch(<<>>))
                        ELSE c
                  sub == SetWalk(dict_getitem(c1, ks[1]), Tail(ks), val)
              IN  IF IsRaise(sub) THEN sub ELSE dict_setitem(c1, ks[1], sub)

\* Container.set_at_key_chain: the receiver after the call (the call returns
\* the receiver), or the exception raised
set_at_key_chain(self, key_chain, val) == SetWalk(self, split(key_chain), val)

\* Container.__setitem__
setitem(self, query, val) ==
    IF HasSlash(query) THEN set_at_key_chain(self, query, val)
    ELSE dict_setitem(self, query, val)

\* the loop of Container.__init__ over sorted(dict_in.items())
InitLoop(its, self) ==
    IF its = <<>> THEN self
    ELSE LET key == Head(its).k
             value == Head(its).v
             val == IF isinstance_dict(value) THEN Container(value) ELSE value
         IN  IF IsRaise(val) THEN val
             ELSE LET s2 == setitem(self, key, val)
                  IN  IF IsRaise(s2) THEN s2 ELSE InitLoop(Tail(its), s2)

\* Container.__init__(dict_in)
Container(dict_in) == InitLoop(sorted(dict_in.items), Branch(<<>>))

----------------------------------------------------------------------------
(* Conversions *)

S_f == <<"_", "f">>

RECURSIVE to_dict(_), ToDictLoop(_, _), ToDictLoop_NoRecursion(_, _)

\* ToDictLoop without the recursive conversion of nested containers
ToDictLoop_NoRecursion(its, return_dict) ==
    IF its = <<>> THEN return_dict
    ELSE LET key == Head(its).k
             value == Head(its).v
         IN  IF key # S_f
             THEN ToDictLoop_NoRecursion(Tail(its), dict_setitem(return_dict, key, value))
             ELSE ToDictLoop_NoRecursion(Tail(its), return_dict)

\* the loop of to_dict over sorted(self.items())
ToDictLoop(its, return_dict) ==
    IF its = <<>> THEN return_dict
    ELSE LET key == Head(its).k
             value == Head(its).v
         IN  IF isinstance_Container(value)
             THEN ToDictLoop(Tail(its), dict_setitem(return_dict, key, to_dict(value)))
             ELSE IF key # S_f
             THEN ToDictLoop(Tail(its), dict_setitem(return_dict, key, value))
             ELSE ToDictLoop(Tail(its), return_dict)

\* Container.to_dict
to_dict(self) == ToDictLoop(sorted(self.items), dict(<<>>))

RECURSIVE to_iterator(_), ToIterLoop(_)

ToIterLoop(its) ==
    IF its = <<>> THEN <<>>
    ELSE LET key == Head(its).k
             value == Head(its).v
         IN  (IF isinstance_Container(value) THEN to_iterator(value)
              ELSE << <<key, value>> >>) \o ToIterLoop(Tail(its))

\* Container.to_iterator: the sequence of pairs the generator yields
to_iterator(self) == ToIterLoop(sorted(self.items))

\* [item for key, item in it]
Items(it) == [i \in 1..Len(it) |-> it[i][2]]

\* Container.to_flat_list
to_flat_list(self) == Items(to_iterator(self))

RECURSIVE from_flat_list(_, _), FromFlatLoop(_, _, _), FromFlatLoop_CopiedList(_, _, _)
RECURSIVE FromFlatLoop_PopNone(_, _, _)

\* FromFlatLoop storing None for a leaf when flat_list has run out
FromFlatLoop_PopNone(its, flat_list, new_dict) ==
    IF its = <<>> THEN [ret |-> Container(new_dict), flat_list |-> flat_list]
    ELSE LET key == Head(its).k
             value == Head(its).v
         IN  IF isinstance_Container(value)
             THEN LET r == from_flat_list(value, flat_list)
                  IN  IF IsRaise(r.ret) THEN r
                      ELSE FromFlatLoop_PopNone(Tail(its), r.flat_list,
                                                dict_setitem(new_dict, key, r.ret))
             ELSE IF flat_list = <<>>
             THEN FromFlatLoop_PopNone(Tail(its), flat_list,
                                       dict_setitem(new_dict, key, None))
             ELSE FromFlatLoop_PopNone(Tail(its), Tail(flat_list),
                                       dict_setitem(new_dict, key, Head(flat_list)))

\* FromFlatLoop with each nested call popping from a copy of flat_list
FromFlatLoop_CopiedList(its, flat_list, new_dict) ==
    IF its = <<>> THEN [ret |-> Container(new_dict), flat_list |-> flat_list]
    ELSE LET key == Head(its).k
             value == Head(its).v
         IN  IF isinstance_Container(value)
             THEN LET r == from_flat_list(value, flat_list)
                  IN  IF IsRaise(r.ret) THEN r
                      ELSE FromFlatLoop_CopiedList(Tail(its), flat_list,
                                                   dict_setitem(new_dict, key, r.ret))
             ELSE IF flat_list = <<>>
             THEN [ret |-> Raise("IndexError"), flat_list |-> flat_list]
             ELSE FromFlatLoop_CopiedList(Tail(its), Tail(flat_list),
                                          dict_setitem(new_dict, key, Head(flat_list)))

\* the loop of from_flat_list over sorted(self.items())
FromFlatLoop(its, flat_list, new_dict) ==
    IF its = <<>> THEN [ret |-> Container(new_dict), flat_list |-> flat_list]
    ELSE LET key == Head(its).k
             value == Head(its).v
         IN  IF isinstance_Container(value)
             THEN LET r == from_flat_list(value, flat_list)
                  IN  IF IsRaise(r.ret) THEN r
                      ELSE FromFlatLoop(Tail(its), r.flat_list,
                                        dict_setitem(new_dict, key, r.ret))
             ELSE IF flat_list = <<>>
             THEN [ret |-> Raise("IndexError"), flat_list |-> flat_list]
             ELSE FromFlatLoop(Tail(its), Tail(flat_list),
                               dict_setitem(new_dict, key, Head(flat_list)))

\* Container.from_flat_list: the value returned (or the exception raised) and
\* what is left of flat_list, which the calls pop from
from_flat_list(self, flat_list) ==
    FromFlatLoop(sorted(self.items), flat_list, dict(<<>>))

----------------------------------------------------------------------------
(* Arrays of the numeric backend: a shape and the elements in row-major order *)

list(elems) == [type |-> "list", elems |-> elems]

Array(shape, data) == [type |-> "array", shape |-> shape, data |-> data]

is_array(x) == x.type = "array"

RECURSIVE Prod(_)
Prod(s) == IF s = <<>> THEN 1 ELSE Head(s) * Prod(Tail(s))

RECURSIVE Sum(_)
Sum(s) == IF s = <<>> THEN 0 ELSE Head(s) + Sum(Tail(s))

RECURSIVE Flatten(_)
Flatten(ss) == IF ss = <<>> THEN <<>> ELSE Head(ss) \o Flatten(Tail(ss))

\* ivy.reshape(x, shape)
reshape(x, shape) ==
    IF Prod(shape) = Len(x.data) THEN Array(shape, x.data) ELSE Raise("Exception")

\* ivy.concatenate(xs, dim)
concatenate(xs, dim) ==
    LET x0 == xs[1]
        rank == Len(x0.shape)
        agree == \A k \in 1..Len(xs) :
                    /\ Len(xs[k].shape) = rank
                    /\ \A j \in 1..rank : j # dim + 1 => xs[k].shape[j] = x0.shape[j]
    IN  IF dim >= rank \/ ~agree THEN Raise("Exception")
        ELSE LET outer == Prod(SubSeq(x0.shape, 1, dim))
                 inner == Prod(SubSeq(x0.shape, dim + 2, rank))
                 chunk(k) == xs[k].shape[dim + 1] * inner
                 total == Sum([k \in 1..Len(xs) |-> xs[k].shape[dim + 1]])
                 row(o) == Flatten([k \in 1..Len(xs) |->
                                      SubSeq(xs[k].data, (o - 1) * chunk(k) + 1, o * chunk(k))])
             IN  Array([j \in 1..rank |-> IF j = dim + 1 THEN total ELSE x0.shape[j]],
                       Flatten([o \in 1..outer |-> row(o)]))

\* x[i] along the given axis (x[:, ..., i]): the axis is removed
index_axis(x, axis, i) ==
    LET rank == Len(x.shape)
    IN  IF axis >= rank THEN Raise("IndexError")
        ELSE IF i >= x.shape[axis + 1] THEN Raise("IndexError")
        ELSE LET outer == Prod(SubSeq(x.shape, 1, axis))
                 inner == Prod(SubSeq(x.shape, axis + 2, rank))
                 n == x.shape[axis + 1]
             IN  Array(SubSeq(x.shape, 1, axis) \o SubSeq(x.shape, axis + 2, rank),
                       Flatten([o \in 1..outer |->
                                  SubSeq(x.data, (o - 1) * n * inner + i * inner + 1,
                                         (o - 1) * n * inner + (i + 1) * inner)]))

\* x[i:i+1] along the given axis (x[:, ..., i:i+1]): the axis is kept, with
\* extent 1, or 0 when i is past the end
slice_axis(x, axis, i) ==
    LET rank == Len(x.shape)
    IN  IF axis >= rank THEN Raise("IndexError")
        ELSE IF i >= x.shape[axis + 1]
        THEN Array([j \in 1..rank |-> IF j = axis + 1 THEN 0 ELSE x.shape[j]], <<>>)
        ELSE LET r == index_axis(x, axis, i)
             IN  Array([j \in 1..rank |-> IF j = axis + 1 THEN 1 ELSE x.shape[j]], r.data)

\* the function _get_shape maps over the leaves
shape_lambda(x) ==
    IF is_array(x) THEN list([j \in 1..Len(x.shape) |-> PyInt(x.shape[j])])
    ELSE IF x.type \in {"list", "tuple"} THEN list(<<PyInt(Len(x.elems))>>)
    ELSE None

\* bool(v)
truthy(v) ==
    IF v = None THEN FALSE
    ELSE IF v.type \in {"list", "tuple"} THEN Len(v.elems) > 0
    ELSE IF isinstance_dict(v) THEN Len(v.items) > 0
    ELSE IF v.type \in {"int", "bool"} THEN v.val \notin {0, FALSE}
    ELSE TRUE

----------------------------------------------------------------------------
(* Key-chain addressing *)

RECURSIVE getitem(_, _), at_key_chain(_, _), AtWalk(_, _)

\* ret[key] for a str key: Container.__getitem__, dict.__getitem__, or the
\* TypeError of a value that cannot be subscripted by a str
subscript(r, key) ==
    IF isinstance_Container(r) THEN getitem(r, key)
    ELSE IF isinstance_dict(r) THEN dict_getitem(r, key)
    ELSE Raise("TypeError")

AtWalk(r, keys) ==
    IF keys = <<>> THEN r
    ELSE LET n == subscript(r, Head(keys))
         IN  IF IsRaise(n) THEN n ELSE AtWalk(n, Tail(keys))

\* Container.at_key_chain
at_key_chain(self, key_chain) == AtWalk(self, split(key_chain))

\* Container.__getitem__ for a str query
getitem(self, query) ==
    IF HasSlash(query) THEN at_key_chain(self, query)
    ELSE dict_getitem(self, query)

RECURSIVE HasWalk(_, _)
HasWalk(r, keys) ==
    IF keys = <<>> THEN Bool(TRUE)
    ELSE LET n == subscript(r, Head(keys))
         IN  IF IsRaise(n)
             THEN (IF n.exc = "KeyError" THEN Bool(FALSE) ELSE n)
             ELSE HasWalk(n, Tail(keys))

\* Container.has_key_chain
has_key_chain(self, key_chain) == HasWalk(self, split(key_chain))

\* Container.__contains__ for a str key
contains(self, key) ==
    IF HasSlash(key) THEN has_key_chain(self, key)
    ELSE Bool(key \in dict_keys(self))

----------------------------------------------------------------------------
(* map *)

\* x in l, for a list l
InList(x, l) == \E i \in 1..Len(l.elems) : l.elems[i] = x

tuple(elems) == [type |-> "tuple", elems |-> elems]

\* this_key_chain in key_chains, for key_chains a list, a Container
\* (Container.__contains__) or a plain dict (dict.__contains__)
in_key_chains(this_key_chain, key_chains) ==
    IF key_chains.type \in {"list", "tuple"} THEN Bool(InList(this_key_chain, key_chains))
    ELSE IF isinstance_Container(key_chains) THEN contains(key_chains, this_key_chain)
    ELSE Bool(this_key_chain \in dict_keys(key_chains))

\* an array held on the device dev
ArrayOn(shape, dev) ==
    [type |-> "array", shape |-> shape, data |-> [i \in 1..Prod(shape) |-> i], dev |-> dev]

\* the function _get_dev_str passes to map: the device tag of an array
dev_str_lambda(x) == IF is_array(x) THEN str(x.dev) ELSE None

\* func(x, kc) for the functions passed to map: "identity" is lambda x, kc: x,
\* "mark" is lambda x, kc: (x, kc), "shape_lambda" the function of _get_shape,
\* "dev_str_lambda" the function of _get_dev_str
Call(func, x, kc) ==
    IF func = "identity" THEN x
    ELSE IF func = "shape_lambda" THEN shape_lambda(x)
    ELSE IF func = "dev_str_lambda" THEN dev_str_lambda(x)
    ELSE tuple(<<x, str(kc)>>)

RECURSIVE map(_, _, _, _, _, _), MapLoop(_, _, _, _, _, _, _)
RECURSIVE MapLoop_KeepEmpty(_, _, _, _, _, _, _), MapLoop_IgnoreToApply(_, _, _, _, _, _, _)
RECURSIVE MapLoop_NeverPrune(_, _, _, _, _, _, _)

\* MapLoop copying every skipped leaf through, whatever prune_unapplied is
MapLoop_NeverPrune(its, func, key_chains, to_apply, prune_unapplied, key_chain, return_dict) ==
    IF its = <<>> THEN Container(return_dict)
    ELSE LET key == Head(its).k
             value == Head(its).v
             this_key_chain == IF key_chain = <<>> THEN key
                               ELSE key_chain \o <<"/">> \o key
             rest(rd) == MapLoop_NeverPrune(Tail(its), func, key_chains, to_apply,
                                            prune_unapplied, key_chain, rd)
         IN  IF isinstance_Container(value)
             THEN LET r == map(value, func, key_chains, to_apply,
                               prune_unapplied, this_key_chain)
                  IN  IF IsRaise(r) THEN r
                      ELSE IF Len(r.items) > 0
                      THEN rest(dict_setitem(return_dict, key, r))
                      ELSE rest(return_dict)
             ELSE IF key_chains # None /\ IsRaise(in_key_chains(this_key_chain, key_chains))
             THEN in_key_chains(this_key_chain, key_chains)
             ELSE IF /\ key_chains # None
                     /\ \/ in_key_chains(this_key_chain, key_chains).val /\ ~to_apply
                        \/ ~in_key_chains(this_key_chain, key_chains).val /\ to_apply
             THEN rest(dict_setitem(return_dict, key, value))
             ELSE rest(dict_setitem(return_dict, key, Call(func, value, this_key_chain)))

\* MapLoop without the test "if ret:" on the result of a nested container
MapLoop_KeepEmpty(its, func, key_chains, to_apply, prune_unapplied, key_chain, return_dict) ==
    IF its = <<>> THEN Container(return_dict)
    ELSE LET key == Head(its).k
             value == Head(its).v
             this_key_chain == IF key_chain = <<>> THEN key
                               ELSE key_chain \o <<"/">> \o key
             rest(rd) == MapLoop_KeepEmpty(Tail(its), func, key_chains, to_apply,
                                           prune_unapplied, key_chain, rd)
         IN  IF isinstance_Container(value)
             THEN LET r == map(value, func, key_chains, to_apply,
                               prune_unapplied, this_key_chain)
                  IN  IF IsRaise(r) THEN r
                      ELSE rest(dict_setitem(return_dict, key, r))
             ELSE IF key_chains # None /\ IsRaise(in_key_chains(this_key_chain, key_chains))
             THEN in_key_chains(this_key_chain, key_chains)
             ELSE IF /\ key_chains # None
                     /\ \/ in_key_chains(this_key_chain, key_chains).val /\ ~to_apply
                        \/ ~in_key_chains(this_key_chain, key_chains).val /\ to_apply
             THEN IF prune_unapplied THEN rest(return_dict)
                  ELSE rest(dict_setitem(return_dict, key, value))
             ELSE rest(dict_setitem(return_dict, key, Call(func, value, this_key_chain)))

\* MapLoop skipping every leaf that is not in key_chains, whatever to_apply is
MapLoop_IgnoreToApply(its, func, key_chains, to_apply, prune_unapplied, key_chain, return_dict) ==
    IF its = <<>> THEN Container(return_dict)
    ELSE LET key == Head(its).k
             value == Head(its).v
             this_key_chain == IF key_chain = <<>> THEN key
                               ELSE key_chain \o <<"/">> \o key
             rest(rd) == MapLoop_IgnoreToApply(Tail(its), func, key_chains, to_apply,
                                               prune_unapplied, key_chain, rd)
         IN  IF isinstance_Container(value)
             THEN LET r == map(value, func, key_chains, to_apply,
                               prune_unapplied, this_key_chain)
                  IN  IF IsRaise(r) THEN r
                      ELSE IF Len(r.items) > 0
                      THEN rest(dict_setitem(return_dict, key, r))
                      ELSE rest(return_dict)
             ELSE IF key_chains # None /\ IsRaise(in_key_chains(this_key_chain, key_chains))
             THEN in_key_chains(this_key_chain, key_chains)
             ELSE IF key_chains # None /\ ~in_key_chains(this_key_chain, key_chains).val
             THEN IF prune_unapplied THEN rest(return_dict)
                  ELSE rest(dict_setitem(return_dict, key, value))
             ELSE rest(dict_setitem(return_dict, key, Call(func, value, this_key_chain)))

\* the loop of map over sorted(self.items())
MapLoop(its, func, key_chains, to_apply, prune_unapplied, key_chain, return_dict) ==
    IF its = <<>> THEN Container(return_dict)
    ELSE LET key == Head(its).k
             value == Head(its).v
             this_key_chain == IF key_chain = <<>> THEN key
                               ELSE key_chain \o <<"/">> \o key
             rest(rd) == MapLoop(Tail(its), func, key_chains, to_apply,
                                 prune_unapplied, key_chain, rd)
         IN  IF isinstance_Container(value)
             THEN LET r == map(value, func, key_chains, to_apply,
                               prune_unapplied, this_key_chain)
                  IN  IF IsRaise(r) THEN r
                      ELSE IF Len(r.items) > 0
                      THEN rest(dict_setitem(return_dict, key, r))
                      ELSE rest(return_dict)
             ELSE IF key_chains # None /\ IsRaise(in_key_chains(this_key_chain, key_chains))
             THEN in_key_chains(this_key_chain, key_chains)
             ELSE IF /\ key_chains # None
                     /\ \/ in_key_chains(this_key_chain, key_chains).val /\ ~to_apply
                        \/ ~in_key_chains(this_key_chain, key_chains).val /\ to_apply
             THEN IF prune_unapplied THEN rest(return_dict)
                  ELSE rest(dict_setitem(return_dict, key, value))
             ELSE rest(dict_setitem(return_dict, key, Call(func, value, this_key_chain)))

\* Container.map
map(self, func, key_chains, to_apply, prune_unapplied, key_chain) ==
    MapLoop(sorted(self.items), func, key_chains, to_apply, prune_unapplied,
            key_chain, dict(<<>>))


----------------------------------------------------------------------------
(* Selections of key chains *)

RECURSIVE AtSeqLoop(_, _, _)
AtSeqLoop(self, kcs, return_cont) ==
    IF kcs = <<>> THEN return_cont
    ELSE LET v == at_key_chain(self, Head(kcs))
         IN  IF IsRaise(v) THEN v
             ELSE LET r == set_at_key_chain(return_cont, Head(kcs), v)
                  IN  IF IsRaise(r) THEN r ELSE AtSeqLoop(self, Tail(kcs), r)

\* Container._at_key_chains_input_as_seq
at_key_chains_input_as_seq(self, key_chains) ==
    AtSeqLoop(self, key_chains, Container(dict(<<>>)))

RECURSIVE at_key_chains_input_as_dict(_, _, _), AtDictLoop(_, _, _, _)

AtDictLoop(self, its, current_chain, return_dict) ==
    IF its = <<>> THEN Container(return_dict)
    ELSE LET k == Head(its).k
             v == Head(its).v
             new_current_chain == IF current_chain = <<>> THEN k
                                  ELSE current_chain \o <<"/">> \o k
             r == IF isinstance_dict(v)
                  THEN at_key_chains_input_as_dict(self, v, new_current_chain)
                  ELSE at_key_chain(self, new_current_chain)
         IN  IF IsRaise(r) THEN r
             ELSE AtDictLoop(self, Tail(its), current_chain,
                             dict_setitem(return_dict, k, r))

\* Container._at_key_chains_input_as_dict
at_key_chains_input_as_dict(self, key_chains, current_chain) ==
    AtDictLoop(self, key_chains.items, current_chain, dict(<<>>))

\* Container.at_key_chains (ignore_none left at its default)
at_key_chains(self, key_chains) ==
    IF key_chains = None THEN self
    ELSE IF key_chains.type = "list"
    THEN at_key_chains_input_as_seq(self, key_chains.elems)
    ELSE IF isinstance_dict(key_chains)
    THEN at_key_chains_input_as_dict(self, key_chains, <<>>)
    ELSE IF key_chains.type = "str"
    THEN at_key_chains_input_as_seq(self, <<key_chains.val>>)
    ELSE Raise("Exception")

\* Container.copy
copy(self) == Container(to_dict(self))

RECURSIVE prune_key_chain(_, _), PruneLoop(_, _, _), PruneLoop_KeepEmptied(_, _, _)

\* PruneLoop keeping a container that the pruning has emptied
PruneLoop_KeepEmptied(its, keys_in_chain, out_dict) ==
    IF its = <<>> THEN Container(out_dict)
    ELSE LET key == Head(its).k
             value == Head(its).v
             rest(od) == PruneLoop_KeepEmptied(Tail(its), keys_in_chain, od)
         IN  IF isinstance_Container(value)
             THEN IF key = keys_in_chain[1]
                  THEN IF Len(keys_in_chain) = 1 THEN rest(out_dict)
                       ELSE LET new_val == prune_key_chain(value, join(Tail(keys_in_chain)))
                            IN  IF IsRaise(new_val) THEN new_val
                                ELSE rest(dict_setitem(out_dict, key, new_val))
                  ELSE LET new_val == to_dict(value)
                       IN  IF Len(new_val.items) > 0
                           THEN rest(dict_setitem(out_dict, key, to_dict(value)))
                           ELSE rest(out_dict)
             ELSE IF Len(keys_in_chain) # 1 \/ key # keys_in_chain[1]
             THEN rest(dict_setitem(out_dict, key, value))
             ELSE rest(out_dict)

\* the loop of prune_key_chain over sorted(self.items())
PruneLoop(its, keys_in_chain, out_dict) ==
    IF its = <<>> THEN Container(out_dict)
    ELSE LET key == Head(its).k
             value == Head(its).v
             rest(od) == PruneLoop(Tail(its), keys_in_chain, od)
         IN  IF isinstance_Container(value)
             THEN IF key = keys_in_chain[1]
                  THEN IF Len(keys_in_chain) = 1 THEN rest(out_dict)
                       ELSE LET new_val == prune_key_chain(value, join(Tail(keys_in_chain)))
                            IN  IF IsRaise(new_val) THEN new_val
                                ELSE IF Len(new_val.items) > 0
                                THEN rest(dict_setitem(out_dict, key, new_val))
                                ELSE rest(out_dict)
                  ELSE LET new_val == to_dict(value)
                       IN  IF Len(new_val.items) > 0
                           THEN rest(dict_setitem(out_dict, key, to_dict(value)))
                           ELSE rest(out_dict)
             ELSE IF Len(keys_in_chain) # 1 \/ key # keys_in_chain[1]
             THEN rest(dict_setitem(out_dict, key, value))
             ELSE rest(out_dict)

\* Container.prune_key_chain
prune_key_chain(self, key_chain) ==
    PruneLoop(sorted(self.items), split(key_chain), dict(<<>>))

RECURSIVE PruneSeqLoop(_, _)
PruneSeqLoop(kcs, return_cont) ==
    IF kcs = <<>> \/ IsRaise(return_cont) THEN return_cont
    ELSE PruneSeqLoop(Tail(kcs), prune_key_chain(return_cont, Head(kcs)))

\* Container._prune_key_chains_input_as_seq
prune_key_chains_input_as_seq(self, key_chains) ==
    PruneSeqLoop(key_chains, copy(self))

----------------------------------------------------------------------------
(* Consensus shape *)

RECURSIVE SeqMin(_)
SeqMin(s) ==
    IF Len(s) = 1 THEN s[1]
    ELSE LET r == SeqMin(Tail(s)) IN IF Head(s) < r THEN Head(s) ELSE r

RECURSIVE Pow(_, _)
Pow(b, e) == IF e = 0 THEN 1 ELSE b * Pow(b, e - 1)

\* sub_shapes of _get_shape: the values of the mapped container that are true
SubShapes(mapped) == SelectSeq(Items(to_iterator(mapped)), truthy)

\* sub_shapes_array of _get_shape: the leading min_num_dims extents of every
\* shape, with -1 in the place of 0
SubShapesArray(sub_shapes, min_num_dims) ==
    [i \in 1..Len(sub_shapes) |->
        [j \in 1..min_num_dims |->
            IF sub_shapes[i].elems[j].val = 0 THEN -1 ELSE sub_shapes[i].elems[j].val]]

\* mask of _get_shape at position j.  The quotients
\* sub_shapes_array / sub_shapes_array[0:1] are kept as exact fractions: their
\* product along axis 0 is 1 exactly when the product of the numerators equals
\* the product of the denominators.  Every extent of the arrays below is 0 or
\* a power of two, so the floating-point quotients and products are exact.
Mask(sub_shapes_array, j) ==
    Prod([i \in 1..Len(sub_shapes_array) |-> sub_shapes_array[i][j]])
        = Pow(sub_shapes_array[1][j], Len(sub_shapes_array))

\* the list _get_shape returns
ConsensusShape(sub_shapes_array) ==
    list([j \in 1..Len(sub_shapes_array[1]) |->
            IF Mask(sub_shapes_array, j) THEN PyInt(sub_shapes_array[1][j]) ELSE None])

\* min([len(sub_shape) for sub_shape in sub_shapes]) and what follows it
ShapeOfSubShapes(sub_shapes) ==
    IF sub_shapes = <<>> THEN Raise("ValueError")
    ELSE ConsensusShape(SubShapesArray(sub_shapes,
            SeqMin([i \in 1..Len(sub_shapes) |-> Len(sub_shapes[i].elems)])))

\* Container._get_shape
get_shape(self) ==
    IF Len(self.items) = 0 THEN list(<<PyInt(0)>>)
    ELSE ShapeOfSubShapes(SubShapes(map(self, "shape_lambda", None, TRUE, FALSE, <<>>)))

\* Container._get_dev_str: sub_dev_strs[0] is read whenever the tags found
\* number at most one, also when none was found
get_dev_str(self) ==
    LET sub_dev_strs ==
            SelectSeq(Items(to_iterator(map(self, "dev_str_lambda", None, TRUE, FALSE, <<>>))),
                      truthy)
    IN  IF Cardinality({sub_dev_strs[i] : i \in 1..Len(sub_dev_strs)}) <= 1
        THEN IF sub_dev_strs = <<>> THEN Raise("IndexError") ELSE sub_dev_strs[1]
        ELSE None

----------------------------------------------------------------------------
(* Broadcast indexing, unstack, concat *)

\* the queries unstack builds: position i along an axis, as an integer index
\* (the axis is removed) or as the slice i:i+1 (keepdims, the axis is kept)
Query(axis, i, keepdims) == [type |-> "query", axis |-> axis, i |-> i, keepdims |-> keepdims]

\* value[query] for a non-empty list or tuple
seq_index(value, query) ==
    IF query.axis > 0 THEN Raise("TypeError")
    ELSE IF query.keepdims
    THEN [value EXCEPT !.elems = SubSeq(@, query.i + 1, query.i + 1)]
    ELSE IF query.i < Len(value.elems) THEN value.elems[query.i + 1]
    ELSE Raise("IndexError")

\* array_index along axis 0 whatever the axis of the query
array_index_Axis0(value, query) ==
    IF query.keepdims THEN slice_axis(value, 0, query.i)
    ELSE index_axis(value, 0, query.i)

\* value[query] for an array
array_index(value, query) ==
    IF query.keepdims THEN slice_axis(value, query.axis, query.i)
    ELSE index_axis(value, query.axis, query.i)

RECURSIVE getitem_query(_, _), GetItemLoop(_, _, _)

GetItemLoop(its, query, return_dict) ==
    IF its = <<>> THEN Container(return_dict)
    ELSE LET key == Head(its).k
             value == Head(its).v
             r == IF isinstance_Container(value) THEN getitem_query(value, query)
                  ELSE IF value.type \in {"list", "tuple"}
                  THEN (IF Len(value.elems) = 0 THEN value ELSE seq_index(value, query))
                  ELSE IF value = None THEN value
                  ELSE IF ~is_array(value) THEN Raise("AttributeError")
                  ELSE IF value.shape = <<>> THEN value
                  ELSE array_index(value, query)
         IN  IF IsRaise(r) THEN r
             ELSE GetItemLoop(Tail(its), query, dict_setitem(return_dict, key, r))

\* Container.__getitem__ for a query that is not a str
getitem_query(self, query) == GetItemLoop(sorted(self.items), query, dict(<<>>))

\* the first exception among the outcomes rs, or list(rs)
ListOrRaise(rs) ==
    IF \E i \in 1..Len(rs) : IsRaise(rs[i])
    THEN rs[CHOOSE i \in 1..Len(rs) :
                IsRaise(rs[i]) /\ \A j \in 1..(i - 1) : ~IsRaise(rs[j])]
    ELSE list(rs)

\* self.shape[axis]
ShapeAt(shp, axis) ==
    IF IsRaise(shp) THEN shp
    ELSE IF axis >= Len(shp.elems) THEN Raise("IndexError")
    ELSE shp.elems[axis + 1]

\* UnstackRange stopping one position early
UnstackRange_OneShort(self, axis, keepdims, dim_size) ==
    IF IsRaise(dim_size) THEN dim_size
    ELSE IF dim_size = None THEN Raise("TypeError")
    ELSE ListOrRaise([i \in 1..(dim_size.val - 1) |->
                        getitem_query(self, Query(axis, i - 1, keepdims))])

\* [self[...] for i in range(dim_size)]
UnstackRange(self, axis, keepdims, dim_size) ==
    IF IsRaise(dim_size) THEN dim_size
    ELSE IF dim_size = None THEN Raise("TypeError")
    ELSE ListOrRaise([i \in 1..dim_size.val |->
                        getitem_query(self, Query(axis, i - 1, keepdims))])

\* Container.unstack
unstack(self, axis, keepdims, dim_size) ==
    UnstackRange(self, axis, keepdims,
                 IF dim_size # None THEN dim_size ELSE ShapeAt(get_shape(self), axis))

RECURSIVE concat(_, _), ConcatLoop(_, _, _, _)

ConcatLoop(its, containers, dim, return_dict) ==
    IF its = <<>> THEN Container(return_dict)
    ELSE LET key == Head(its).k
             subs == ListOrRaise([k \in 1..Len(containers) |-> subscript(containers[k], key)])
         IN  IF IsRaise(subs) THEN subs
             ELSE LET r == concat(subs.elems, dim)
                  IN  IF IsRaise(r) THEN r
                      ELSE ConcatLoop(Tail(its), containers, dim,
                                      dict_setitem(return_dict, key, r))

\* Container.concat
concat(containers, dim) ==
    LET container0 == containers[1]
    IN  IF isinstance_dict(container0)
        THEN ConcatLoop(container0.items, containers, dim, dict(<<>>))
        ELSE IF \E k \in 1..Len(containers) : ~is_array(containers[k])
        THEN Raise("Exception")
        ELSE IF Len(container0.shape) = 0
        THEN LET items == ListOrRaise([k \in 1..Len(containers) |->
                                reshape(containers[k], [j \in 1..(dim + 1) |-> 1])])
             IN  IF IsRaise(items) THEN Raise("Exception")
                 ELSE concatenate(items.elems, dim)
        ELSE concatenate(containers, dim)

----------------------------------------------------------------------------
(* reshape_like *)

\* ivy.reshape(v, v_shape) for a shape given as a list or a tuple of int
backend_reshape(v, v_shape) ==
    IF is_array(v) /\ v_shape.type \in {"list", "tuple"}
    THEN reshape(v, [j \in 1..Len(v_shape.elems) |-> v_shape.elems[j].val])
    ELSE Raise("Exception")

RECURSIVE reshape_like(_, _, _), ReshapeLoop(_, _, _, _)

\* the loop of reshape_like over
\* zip(target_container.items(), return_cont.items()): the i-th entry of the
\* one is taken with the i-th entry of the other
ReshapeLoop(self, target_container, return_cont, i) ==
    IF i > Len(target_container.items) \/ i > Len(return_cont.items)
    THEN Container(return_cont)
    ELSE LET v_shape == target_container.items[i].v
             k == return_cont.items[i].k
             v == return_cont.items[i].v
             sub == reshape_like(self, v_shape, getitem(return_cont, k))
             set(val) == IF IsRaise(val) THEN val
                         ELSE ReshapeLoop(self, target_container,
                                          setitem(return_cont, k, val), i + 1)
         IN  IF isinstance_dict(v_shape) THEN set(sub)
             ELSE set(backend_reshape(v, v_shape))

\* Container.reshape_like; return_cont.items() of a value that is not a
\* mapping raises AttributeError
reshape_like(self, target_container, return_cont) ==
    IF IsRaise(return_cont) THEN return_cont
    ELSE IF return_cont = None THEN ReshapeLoop(self, target_container, copy(self), 1)
    ELSE IF ~isinstance_dict(return_cont) THEN Raise("AttributeError")
    ELSE ReshapeLoop(self, target_container, return_cont, 1)

----------------------------------------------------------------------------
(* shuffle.  The backend holds a random generator: seed sets its state,    *)
(* shuffle permutes an array along axis 0 by a permutation that depends on *)
(* the state and on the extent, and advances the state.  The calls made to *)
(* the backend are recorded in the order they are made.                    *)

Backend(rng, calls) == [rng |-> rng, calls |-> calls]

\* the state of a generator seeded with seed_value, after draws draws
Rng(seed_value, draws) == [seed |-> seed_value, draws |-> draws]

\* the permutation of 1..n a generator in the state rng produces
Permutation(rng, n) == [i \in 1..n |-> ((i + rng.seed + rng.draws) % n) + 1]

\* the array x with its positions along axis 0 taken in the order perm
Permuted(x, perm) ==
    LET row == Prod(Tail(x.shape))
    IN  [x EXCEPT !.data = [j \in 1..Len(x.data) |->
            x.data[(perm[((j - 1) \div row) + 1] - 1) * row + ((j - 1) % row) + 1]]]

\* ivy.seed(seed_value)
backend_seed(be, seed_value) ==
    Backend(Rng(seed_value.val, 0),
            Append(be.calls, [call |-> "seed", arg |-> seed_value]))

\* ivy.shuffle(x): the outcome and the backend after the call
backend_shuffle(be, x) ==
    IF is_array(x) /\ Len(x.shape) >= 1
    THEN [ret |-> Permuted(x, Permutation(be.rng, x.shape[1])),
          be |-> Backend(Rng(be.rng.seed, be.rng.draws + 1),
                         Append(be.calls, [call |-> "shuffle", arg |-> x]))]
    ELSE [ret |-> Raise("TypeError"),
          be |-> Backend(be.rng, Append(be.calls, [call |-> "shuffle", arg |-> x]))]

RECURSIVE shuffle(_, _, _, _, _, _, _, _)
RECURSIVE ShuffleLoop(_, _, _, _, _, _, _, _), ShuffleLoop_SeedOnce(_, _, _, _, _, _, _, _)

\* ShuffleLoop without the call of ivy.seed before the shuffle of a leaf
ShuffleLoop_SeedOnce(its, seed_value, key_chains, to_apply, prune_unapplied, key_chain, return_dict, be) ==
    IF its = <<>> THEN [ret |-> Container(return_dict), be |-> be]
    ELSE LET key == Head(its).k
             value == Head(its).v
             this_key_chain == IF key_chain = <<>> THEN key
                               ELSE key_chain \o <<"/">> \o key
             rest(rd, b) == ShuffleLoop_SeedOnce(Tail(its), seed_value, key_chains, to_apply,
                                                 prune_unapplied, key_chain, rd, b)
             sub == shuffle(value, seed_value, key_chains, to_apply, prune_unapplied,
                            this_key_chain, seed_value, be)
             shuffled == backend_shuffle(
                            IF be.calls = <<>> THEN backend_seed(be, seed_value) ELSE be, value)
         IN  IF isinstance_Container(value)
             THEN IF IsRaise(sub.ret) THEN sub
                  ELSE IF Len(sub.ret.items) > 0
                  THEN rest(dict_setitem(return_dict, key, sub.ret), sub.be)
                  ELSE rest(return_dict, sub.be)
             ELSE IF key_chains # None /\ IsRaise(in_key_chains(this_key_chain, key_chains))
             THEN [ret |-> in_key_chains(this_key_chain, key_chains), be |-> be]
             ELSE IF /\ key_chains # None
                     /\ \/ in_key_chains(this_key_chain, key_chains).val /\ ~to_apply
                        \/ ~in_key_chains(this_key_chain, key_chains).val /\ to_apply
             THEN IF prune_unapplied THEN rest(return_dict, be)
                  ELSE rest(dict_setitem(return_dict, key, value), be)
             ELSE IF IsRaise(shuffled.ret) THEN shuffled
             ELSE rest(dict_setitem(return_dict, key, shuffled.ret), shuffled.be)

\* the loop of shuffle over sorted(self.items())
ShuffleLoop(its, seed_value, key_chains, to_apply, prune_unapplied, key_chain, return_dict, be) ==
    IF its = <<>> THEN [ret |-> Container(return_dict), be |-> be]
    ELSE LET key == Head(its).k
             value == Head(its).v
             this_key_chain == IF key_chain = <<>> THEN key
                               ELSE key_chain \o <<"/">> \o key
             rest(rd, b) == ShuffleLoop(Tail(its), seed_value, key_chains, to_apply,
                                        prune_unapplied, key_chain, rd, b)
             sub == shuffle(value, seed_value, key_chains, to_apply, prune_unapplied,
                            this_key_chain, seed_value, be)
             shuffled == backend_shuffle(backend_seed(be, seed_value), value)
         IN  IF isinstance_Container(value)
             THEN IF IsRaise(sub.ret) THEN sub
                  ELSE IF Len(sub.ret.items) > 0
                  THEN rest(dict_setitem(return_dict, key, sub.ret), sub.be)
                  ELSE rest(return_dict, sub.be)
             ELSE IF key_chains # None /\ IsRaise(in_key_chains(this_key_chain, key_chains))
             THEN [ret |-> in_key_chains(this_key_chain, key_chains), be |-> be]
             ELSE IF /\ key_chains # None
                     /\ \/ in_key_chains(this_key_chain, key_chains).val /\ ~to_apply
                        \/ ~in_key_chains(this_key_chain, key_chains).val /\ to_apply
             THEN IF prune_unapplied THEN rest(return_dict, be)
                  ELSE rest(dict_setitem(return_dict, key, value), be)
             ELSE IF IsRaise(shuffled.ret) THEN shuffled
             ELSE rest(dict_setitem(return_dict, key, shuffled.ret), shuffled.be)

\* Container.shuffle: the Container returned (or the exception raised) and the
\* backend after the call.  drawn is the value ivy.random.randint gives when
\* seed_value is None
shuffle(self, seed_value, key_chains, to_apply, prune_unapplied, key_chain, drawn, be) ==
    ShuffleLoop(sorted(self.items), IF seed_value = None THEN drawn ELSE seed_value,
                key_chains, to_apply, prune_unapplied, key_chain, dict(<<>>), be)

----------------------------------------------------------------------------
(* reduce *)

\* an exception carrying a message: the message is the sequence of the texts
\* concatenated into it, each text a sequence of characters or of longer
\* pieces
RaiseMsg(exc, msg) == [type |-> "raise", exc |-> exc, msg |-> msg]

ReduceOnlyValid == <<"\n", "Container reduce operation only valid for containers of arrays">>

\* reduction(containers), for the reductions the callers below pass:
\* "first" is lambda x: x[0]; "no_twos" returns sum(x) and raises
\* ValueError('two') when 2 is in x; "ints" returns sum(x) and raises
\* ValueError('not an int') when a value is not an int
CallReduction(reduction, xs) ==
    LET ints == \A i \in 1..Len(xs) : xs[i].type = "int"
        total == PyInt(Sum([i \in 1..Len(xs) |-> IF ints THEN xs[i].val ELSE 0]))
    IN  IF reduction = "first" THEN xs[1]
        ELSE IF reduction = "no_twos"
        THEN (IF \E i \in 1..Len(xs) : xs[i] = PyInt(2) THEN RaiseMsg("ValueError", <<(<<"t", "w", "o">>)>>)
              ELSE IF ints THEN total ELSE RaiseMsg("TypeError", <<(<<"unsupported operand">>)>>))
        ELSE IF ints THEN total ELSE RaiseMsg("ValueError", <<(<<"not an int">>)>>)

RECURSIVE reduce(_, _), ReduceLoop(_, _, _, _)

\* the loop of reduce over container0.keys()
ReduceLoop(its, containers, reduction, return_dict) ==
    IF its = <<>> THEN Container(return_dict)
    ELSE LET key == Head(its).k
             subs == ListOrRaise([k \in 1..Len(containers) |-> subscript(containers[k], key)])
         IN  IF IsRaise(subs) THEN subs
             ELSE LET r == reduce(subs.elems, reduction)
                  IN  IF IsRaise(r) THEN r
                      ELSE ReduceLoop(Tail(its), containers, reduction,
                                      dict_setitem(return_dict, key, r))

\* the exception reduce raises in the place of the exception e of the
\* reduction: Exception(str(e) + '\nContainer reduce operation only valid ...')
ReduceWrap(e) == RaiseMsg("Exception", e.msg \o <<ReduceOnlyValid>>)

\* Container.reduce
reduce(containers, reduction) ==
    LET container0 == containers[1]
    IN  IF isinstance_dict(container0)
        THEN ReduceLoop(container0.items, containers, reduction, dict(<<>>))
        ELSE LET r == CallReduction(reduction, containers)
             IN  IF IsRaise(r) THEN ReduceWrap(r) ELSE r

----------------------------------------------------------------------------
(* Writing to an h5 file.  A group of the file holds its members by name,  *)
(* a dataset its shape and its elements in row-major order.                *)

\* the file does not exist
NoFile == [type |-> "nofile"]

Group(items) == [type |-> "group", items |-> items]

Dataset(shape, data) == [type |-> "dataset", shape |-> shape, data |-> data]

\* key in h5_obj.keys()
h5_has(h5_obj, key) == \E i \in 1..Len(h5_obj.items) : h5_obj.items[i].k = key

\* h5_obj[key]
h5_get(h5_obj, key) ==
    h5_obj.items[CHOOSE i \in 1..Len(h5_obj.items) : h5_obj.items[i].k = key].v

\* h5_obj with the member key created or replaced by v
h5_put(h5_obj, key, v) ==
    IF h5_has(h5_obj, key)
    THEN [h5_obj EXCEPT !.items = [i \in 1..Len(@) |->
                                     IF @[i].k = key THEN Entry(key, v) ELSE @[i]]]
    ELSE [h5_obj EXCEPT !.items = Append(@, Entry(key, v))]

\* h5_obj.create_dataset(key, dataset_shape, ...): a dataset of zeros
create_dataset(dataset_shape) ==
    Dataset(dataset_shape, [i \in 1..Prod(dataset_shape) |-> 0])

Min(a, b) == IF a < b THEN a ELSE b

Max(a, b) == IF a > b THEN a ELSE b

\* value_as_np[0:stop]: the leading rows of an array, a negative stop
\* counting from the end
head_rows(x, stop) ==
    LET n == x.shape[1]
        rows == IF stop < 0 THEN Max(0, n + stop) ELSE Min(n, stop)
        inner == Prod(Tail(x.shape))
    IN  Array(<<rows>> \o Tail(x.shape), SubSeq(x.data, 1, rows * inner))

\* dset[start:stop] = x: the slice is clipped to the rows of the dataset; x
\* must have as many rows as the slice, or one row, which is then written to
\* every row of the slice
dataset_assign(dset, start, stop, x) ==
    LET rows == dset.shape[1]
        lo == Min(start, rows)
        hi == Max(lo, Min(stop, rows))
        inner == Prod(Tail(dset.shape))
    IN  IF Tail(x.shape) # Tail(dset.shape) THEN Raise("TypeError")
        ELSE IF x.shape[1] # hi - lo /\ x.shape[1] # 1 THEN Raise("TypeError")
        ELSE [dset EXCEPT !.data =
                [i \in 1..Len(@) |->
                    IF i > lo * inner /\ i <= hi * inner
                    THEN x.data[IF x.shape[1] = 1 THEN ((i - 1) % inner) + 1
                                ELSE i - lo * inner]
                    ELSE @[i]]]

\* the outcome of a write: the state of the h5 object when the call ends and
\* the exception that ended it, None when it returned
H5Result(h5, exc) == [h5 |-> h5, exc |-> exc]

\* the part of the loop of to_disk_as_hdf5 that follows
\* "if not max_batch_size": the dataset is created if missing, then written
WriteLeaf(h5_obj, key, value_as_np, starting_index, max_batch_size) ==
    LET this_batch_size == value_as_np.shape[1]
        dataset_shape == <<max_batch_size>> \o Tail(value_as_np.shape)
        h5_1 == IF h5_has(h5_obj, key) THEN h5_obj
                ELSE h5_put(h5_obj, key, create_dataset(dataset_shape))
        space_left == max_batch_size - starting_index
        amount_to_write == Min(this_batch_size, space_left)
        target == h5_get(h5_1, key)
    IN  IF target.type # "dataset" THEN H5Result(h5_1, Raise("TypeError"))
        ELSE LET r == dataset_assign(target, starting_index,
                                     starting_index + amount_to_write,
                                     head_rows(value_as_np, amount_to_write))
             IN  IF IsRaise(r) THEN H5Result(h5_1, r)
                 ELSE H5Result(h5_put(h5_1, key, r), None)

RECURSIVE to_disk_as_hdf5(_, _, _, _), ToDiskLoop(_, _, _, _)

\* the loop of to_disk_as_hdf5 over sorted(self.items()); max_batch_size is
\* the local variable, which an iteration may assign
ToDiskLoop(its, h5_obj, starting_index, max_batch_size) ==
    IF its = <<>> THEN H5Result(h5_obj, None)
    ELSE LET key == Head(its).k
             value == Head(its).v
         IN  IF isinstance_Container(value)
             THEN LET h5_1 == IF h5_has(h5_obj, key) THEN h5_obj
                              ELSE h5_put(h5_obj, key, Group(<<>>))
                      h5_group == h5_get(h5_1, key)
                  IN  IF h5_group.type # "group"
                      THEN H5Result(h5_1, Raise("AttributeError"))
                      ELSE LET r == to_disk_as_hdf5(value, h5_group, starting_index,
                                                    max_batch_size)
                           IN  IF r.exc # None
                               THEN H5Result(h5_put(h5_1, key, r.h5), r.exc)
                               ELSE ToDiskLoop(Tail(its), h5_put(h5_1, key, r.h5),
                                               starting_index, max_batch_size)
             ELSE IF ~is_array(value) \/ value.shape = <<>>
             THEN \* value_shape[0] of a value that has no first dimension
                  H5Result(h5_obj, Raise("IndexError"))
             ELSE LET mbs == IF max_batch_size = None \/ max_batch_size = PyInt(0)
                             THEN PyInt(starting_index + value.shape[1])
                             ELSE max_batch_size
                      r == WriteLeaf(h5_obj, key, value, starting_index, mbs.val)
                  IN  IF r.exc # None THEN r
                      ELSE ToDiskLoop(Tail(its), r.h5, starting_index, mbs)

\* Container.to_disk_as_hdf5, called with an h5 object
to_disk_as_hdf5(self, h5_obj, starting_index, max_batch_size) ==
    ToDiskLoop(sorted(self.items), h5_obj, starting_index, max_batch_size)

\* _h5py.File(filepath, 'a'): the content of the file, created when missing
h5py_File(file) == IF file = NoFile THEN Group(<<>>) ELSE file

----------------------------------------------------------------------------
(* prune_key_chains *)

\* x.shape for the value _prune_key_chains_input_as_dict returns
shape_attr(x) ==
    IF isinstance_Container(x) THEN get_shape(x)
    ELSE IF is_array(x) THEN list([j \in 1..Len(x.shape) |-> PyInt(x.shape[j])])
    ELSE Raise("AttributeError")

\* del d[k]
delitem(d, k) ==
    IF ~isinstance_dict(d) THEN Raise("TypeError")
    ELSE IF k \notin dict_keys(d) THEN Raise("KeyError")
    ELSE [d EXCEPT !.items = RemoveAt(@, IndexOf(d, k))]

RECURSIVE prune_key_chains_input_as_dict(_, _, _), PruneDictLoop(_, _, _)

\* if ret_cont.shape[0] == 0: del return_cont[k]
PruneDictDel(k, return_cont, shp) ==
    IF IsRaise(shp) THEN shp
    ELSE IF shp.elems = <<>> THEN Raise("IndexError")
    ELSE IF shp.elems[1] = PyInt(0) THEN delitem(return_cont, k)
    ELSE return_cont

\* the recursive call has pruned sub, which is return_cont[k], in place;
\* when sub is None it has pruned a copy of self instead
PruneDictAfter(k, return_cont, sub, ret_cont) ==
    IF IsRaise(ret_cont) THEN ret_cont
    ELSE PruneDictDel(k, IF sub = None THEN return_cont
                         ELSE dict_setitem(return_cont, k, ret_cont),
                      shape_attr(ret_cont))

PruneDictNested(self, k, v, return_cont, sub) ==
    IF IsRaise(sub) THEN sub
    ELSE PruneDictAfter(k, return_cont, sub, prune_key_chains_input_as_dict(self, v, sub))

\* the loop of _prune_key_chains_input_as_dict over key_chains.items()
PruneDictLoop(self, its, return_cont) ==
    IF its = <<>> \/ IsRaise(return_cont) THEN return_cont
    ELSE IF isinstance_dict(Head(its).v)
    THEN PruneDictLoop(self, Tail(its),
            PruneDictNested(self, Head(its).k, Head(its).v, return_cont,
                            subscript(return_cont, Head(its).k)))
    ELSE PruneDictLoop(self, Tail(its), delitem(return_cont, Head(its).k))

\* Container._prune_key_chains_input_as_dict
prune_key_chains_input_as_dict(self, key_chains, return_cont) ==
    PruneDictLoop(self, key_chains.items,
                  IF return_cont = None THEN copy(self) ELSE return_cont)

\* Container.prune_key_chains (ignore_none left at its default)
prune_key_chains(self, key_chains) ==
    IF key_chains = None THEN self
    ELSE IF key_chains.type = "list"
    THEN prune_key_chains_input_as_seq(self, key_chains.elems)
    ELSE IF isinstance_dict(key_chains)
    THEN prune_key_chains_input_as_dict(self, key_chains, None)
    ELSE IF key_chains.type = "str"
    THEN prune_key_chains_input_as_seq(self, <<key_chains.val>>)
    ELSE Raise("Exception")

----------------------------------------------------------------------------
(* Objects.  To follow which object a call writes to, the dicts and        *)
(* Containers live in a heap: heap[id] is the object with identity id, and *)
(* an entry's value is a leaf value or a reference to an object.  A call   *)
(* on the heap gives the heap after it and the value it returns or the     *)
(* exception it raises.                                                    *)

Ref(id) == [type |-> "ref", id |-> id]

IsRef(v) == v.type = "ref"

H_isinstance_Container(h, v) == IsRef(v) /\ h[v.id].type = "Container"

\* the outcome of a call: the heap after it, and what it returns or raises
HR(h, val) == [heap |-> h, val |-> val]

\* dict() or Container({}): a new empty object
New(h, type) == HR(Append(h, [type |-> type, items |-> <<>>]), Ref(Len(h) + 1))

\* dict.__setitem__ on the object self refers to
H_dict_setitem(h, self, k, v) == [h EXCEPT ![self.id] = dict_setitem(@, k, v)]

\* dict.__delitem__ on the object self refers to
H_dict_delitem(h, self, k) ==
    [h EXCEPT ![self.id].items = RemoveAt(@, IndexOf(h[self.id], k))]

RECURSIVE Store(_, _), StoreLoop(_, _, _), StoreNext(_, _, _, _)

\* the objects of a nested mapping given as a literal
Store(h, v) ==
    IF isinstance_dict(v) THEN StoreLoop(New(h, v.type), v.items, 1) ELSE HR(h, v)

StoreLoop(n, its, i) ==
    IF i > Len(its) THEN n
    ELSE StoreNext(Store(n.heap, its[i].v), n.val, its, i)

StoreNext(r, self, its, i) ==
    StoreLoop(HR(H_dict_setitem(r.heap, self, its[i].k, r.val), self), its, i + 1)

RECURSIVE H_SetWalk(_, _, _, _), H_SetWalkNew(_, _, _, _)
RECURSIVE H_Container(_, _), H_InitLoop(_, _), H_InitSet(_, _, _), H_InitNext(_, _, _)

\* the walk of set_at_key_chain from node c along the remaining keys ks
H_SetWalk(h, c, ks, val) ==
    IF ~IsRef(c) THEN HR(h, Raise("TypeError"))
    ELSE IF Len(ks) = 1 THEN HR(H_dict_setitem(h, c, ks[1], val), None)
    ELSE IF ks[1] \in dict_keys(h[c.id])
    THEN H_SetWalk(h, dict_getitem(h[c.id], ks[1]), Tail(ks), val)
    ELSE H_SetWalkNew(H_Container(New(h, "dict").heap, New(h, "dict").val),
                      c, ks, val)

\* cont[key] = Container({}); cont = cont[key]
H_SetWalkNew(n, c, ks, val) ==
    H_SetWalk(H_dict_setitem(n.heap, c, ks[1], n.val), n.val, Tail(ks), val)

\* Container.set_at_key_chain: returns the receiver
H_set_at_key_chain(h, self, key_chain, val) ==
    LET r == H_SetWalk(h, self, split(key_chain), val)
    IN  IF IsRaise(r.val) THEN r ELSE HR(r.heap, self)

\* self[query] = val: Container.__setitem__, or dict.__setitem__ of a plain
\* dict
H_setitem(h, self, query, val) ==
    IF ~IsRef(self) THEN HR(h, Raise("TypeError"))
    ELSE IF h[self.id].type = "Container" /\ HasSlash(query)
    THEN H_set_at_key_chain(h, self, query, val)
    ELSE HR(H_dict_setitem(h, self, query, val), None)

\* Container.__init__(dict_in): dict(dict_in) fails for a number
H_Container(h, dict_in) ==
    IF ~IsRef(dict_in) THEN HR(h, Raise("TypeError"))
    ELSE H_InitLoop(New(h, "Container"), sorted(h[dict_in.id].items))

\* the loop of Container.__init__ over sorted(dict_in.items()); n holds self
H_InitLoop(n, its) ==
    IF its = <<>> THEN n
    ELSE IF IsRef(Head(its).v)
    THEN H_InitSet(H_Container(n.heap, Head(its).v), n.val, its)
    ELSE H_InitSet(HR(n.heap, Head(its).v), n.val, its)

\* self[key] = r.val
H_InitSet(r, self, its) ==
    IF IsRaise(r.val) THEN r
    ELSE H_InitNext(H_setitem(r.heap, self, Head(its).k, r.val), self, its)

H_InitNext(r, self, its) ==
    IF IsRaise(r.val) THEN r ELSE H_InitLoop(HR(r.heap, self), Tail(its))

\* v[key] for a str key without '/'
H_subscript(h, v, key) ==
    IF ~IsRef(v) THEN Raise("TypeError") ELSE dict_getitem(h[v.id], key)

RECURSIVE H_AtWalk(_, _, _)

H_AtWalk(h, v, ks) ==
    IF ks = <<>> THEN v
    ELSE LET x == H_subscript(h, v, Head(ks))
         IN  IF IsRaise(x) THEN x ELSE H_AtWalk(h, x, Tail(ks))

\* Container.at_key_chain: the node itself, not a copy of it
H_at_key_chain(h, self, key_chain) == H_AtWalk(h, self, split(key_chain))

\* Container(r.val) for the outcome r of the call that made the argument
H_ContainerOf(r) == IF IsRaise(r.val) THEN r ELSE H_Container(r.heap, r.val)

\* Container.__getitem__ for a str query, or v[query] of another value
H_getitem(h, v, query) ==
    IF H_isinstance_Container(h, v) /\ HasSlash(query)
    THEN H_at_key_chain(h, v, query)
    ELSE H_subscript(h, v, query)

RECURSIVE H_to_dict(_, _), H_ToDictLoop(_, _), H_ToDictSet(_, _, _)

\* Container.to_dict
H_to_dict(h, self) == H_ToDictLoop(New(h, "dict"), sorted(h[self.id].items))

\* the loop of to_dict over sorted(self.items()); n holds return_dict
H_ToDictLoop(n, its) ==
    IF its = <<>> THEN n
    ELSE IF H_isinstance_Container(n.heap, Head(its).v)
    THEN H_ToDictSet(H_to_dict(n.heap, Head(its).v), n.val, its)
    ELSE IF Head(its).k # S_f
    THEN H_ToDictSet(HR(n.heap, Head(its).v), n.val, its)
    ELSE H_ToDictLoop(n, Tail(its))

\* return_dict[key] = r.val
H_ToDictSet(r, return_dict, its) ==
    H_ToDictLoop(HR(H_dict_setitem(r.heap, return_dict, Head(its).k, r.val),
                    return_dict), Tail(its))

\* copy returning the receiver itself
H_copy_ReturnSelf(h, self) == HR(h, self)

\* Container.copy
H_copy(h, self) == H_ContainerOf(H_to_dict(h, self))

RECURSIVE H_AtSeqLoop(_, _, _), H_AtSeqNext(_, _, _)

\* the loop of _at_key_chains_input_as_seq; n holds return_cont
H_AtSeqLoop(n, self, kcs) ==
    IF kcs = <<>> THEN n
    ELSE LET v == H_at_key_chain(n.heap, self, Head(kcs))
         IN  IF IsRaise(v) THEN HR(n.heap, v)
             ELSE H_AtSeqNext(H_set_at_key_chain(n.heap, n.val, Head(kcs), v),
                              self, kcs)

H_AtSeqNext(r, self, kcs) ==
    IF IsRaise(r.val) THEN r ELSE H_AtSeqLoop(r, self, Tail(kcs))

\* Container._at_key_chains_input_as_seq
H_at_key_chains_input_as_seq(h, self, key_chains) ==
    H_AtSeqLoop(H_ContainerOf(New(h, "dict")), self, key_chains)

RECURSIVE H_at_key_chains_input_as_dict(_, _, _, _)
RECURSIVE H_AtDictLoop(_, _, _, _), H_AtDictSet(_, _, _, _, _)

\* the loop of _at_key_chains_input_as_dict; n holds return_dict
H_AtDictLoop(n, self, its, current_chain) ==
    IF its = <<>> THEN n
    ELSE LET k == Head(its).k
             v == Head(its).v
             new_current_chain == IF current_chain = <<>> THEN k
                                  ELSE current_chain \o <<"/">> \o k
         IN  IF isinstance_dict(v)
             THEN H_AtDictSet(H_at_key_chains_input_as_dict(n.heap, self, v,
                                                            new_current_chain),
                              n.val, self, its, current_chain)
             ELSE H_AtDictSet(HR(n.heap, H_at_key_chain(n.heap, self,
                                                       new_current_chain)),
                              n.val, self, its, current_chain)

\* return_dict[k] = r.val
H_AtDictSet(r, return_dict, self, its, current_chain) ==
    IF IsRaise(r.val) THEN r
    ELSE H_AtDictLoop(HR(H_dict_setitem(r.heap, return_dict, Head(its).k, r.val),
                         return_dict), self, Tail(its), current_chain)

\* Container._at_key_chains_input_as_dict
H_at_key_chains_input_as_dict(h, self, key_chains, current_chain) ==
    H_ContainerOf(H_AtDictLoop(New(h, "dict"), self, key_chains.items,
                               current_chain))

\* Container.at_key_chains (ignore_none left at its default)
H_at_key_chains(h, self, key_chains) ==
    IF key_chains = None THEN HR(h, self)
    ELSE IF key_chains.type = "list"
    THEN H_at_key_chains_input_as_seq(h, self, key_chains.elems)
    ELSE IF isinstance_dict(key_chains)
    THEN H_at_key_chains_input_as_dict(h, self, key_chains, <<>>)
    ELSE IF key_chains.type = "str"
    THEN H_at_key_chains_input_as_seq(h, self, <<key_chains.val>>)
    ELSE HR(h, Raise("Exception"))

RECURSIVE H_slice_via_key(_, _, _), H_SliceLoop(_, _, _), H_SliceSet(_, _, _, _)

\* the loop of slice_via_key over sorted(self.items()); n holds return_dict.
\* The value under slice_key is returned as it is; otherwise return_dict is
\* wrapped in a new Container.
H_SliceLoop(n, its, slice_key) ==
    IF its = <<>> THEN H_ContainerOf(n)
    ELSE IF Head(its).k = slice_key THEN HR(n.heap, Head(its).v)
    ELSE IF H_isinstance_Container(n.heap, Head(its).v)
    THEN H_SliceSet(H_slice_via_key(n.heap, Head(its).v, slice_key), n.val,
                    its, slice_key)
    ELSE H_SliceSet(HR(n.heap, Head(its).v), n.val, its, slice_key)

\* return_dict[key] = r.val
H_SliceSet(r, return_dict, its, slice_key) ==
    IF IsRaise(r.val) THEN r
    ELSE H_SliceLoop(HR(H_dict_setitem(r.heap, return_dict, Head(its).k, r.val),
                        return_dict), Tail(its), slice_key)

\* Container.slice_via_key
H_slice_via_key(h, self, slice_key) ==
    H_SliceLoop(New(h, "dict"), sorted(h[self.id].items), slice_key)

\* the objects the entries of object i refer to
Succ(h, i) ==
    {h[i].items[j].v.id : j \in {j \in 1..Len(h[i].items) : IsRef(h[i].items[j].v)}}

RECURSIVE ReachFrom(_, _)

\* the objects reached from the objects in ids, these included
ReachFrom(h, ids) ==
    LET more == ids \cup UNION {Succ(h, i) : i \in ids}
    IN  IF more = ids THEN ids ELSE ReachFrom(h, more)

\* no object below v is reached from itself: the calls that recurse through
\* every dict below v (Container.__init__, to_dict, slice_via_key, map, ...)
\* come to an end
NoCycle(h, v) ==
    IsRef(v) => \A i \in ReachFrom(h, {v.id}) : i \notin ReachFrom(h, Succ(h, i))

RECURSIVE Deref(_, _)

\* the tree below v as a value: every reference replaced by what it refers to
Deref(h, v) ==
    IF ~IsRef(v) THEN v
    ELSE [type |-> h[v.id].type,
          items |-> [j \in 1..Len(h[v.id].items) |->
                        Entry(h[v.id].items[j].k, Deref(h, h[v.id].items[j].v))]]

\* d[k] = r.val, for the outcome r of the call that made the value
H_Put(r, d, k) ==
    IF IsRaise(r.val) THEN r ELSE HR(H_dict_setitem(r.heap, d, k, r.val), d)

\* self[query] = r.val, for the outcome r of the call that made the value
H_PutItem(r, self, query) ==
    IF IsRaise(r.val) THEN r
    ELSE LET s == H_setitem(r.heap, self, query, r.val)
         IN  IF IsRaise(s.val) THEN s ELSE HR(s.heap, self)

\* the truth value of v: a dict is true when it is not empty
H_truthy(h, v) == IF IsRef(v) THEN Len(h[v.id].items) > 0 ELSE truthy(v)

\* if r.val: d[k] = r.val
H_PutIf(r, d, k) ==
    IF IsRaise(r.val) THEN r
    ELSE IF H_truthy(r.heap, r.val) THEN H_Put(r, d, k)
    ELSE HR(r.heap, d)

\* del v[k]
H_delitem(h, v, k) ==
    IF ~IsRef(v) THEN HR(h, Raise("TypeError"))
    ELSE IF k \notin dict_keys(h[v.id]) THEN HR(h, Raise("KeyError"))
    ELSE HR(H_dict_delitem(h, v, k), v)

RECURSIVE H_map(_, _, _, _, _, _, _), H_MapLoop(_, _, _, _, _, _, _)

\* the loop of map over sorted(self.items()); n holds return_dict
H_MapLoop(n, its, func, key_chains, to_apply, prune_unapplied, key_chain) ==
    IF IsRaise(n.val) \/ its = <<>> THEN n
    ELSE LET key == Head(its).k
             value == Head(its).v
             this_key_chain == IF key_chain = <<>> THEN key
                               ELSE key_chain \o <<"/">> \o key
             rest(r) == H_MapLoop(r, Tail(its), func, key_chains, to_apply,
                                  prune_unapplied, key_chain)
         IN  IF H_isinstance_Container(n.heap, value)
             THEN rest(H_PutIf(H_map(n.heap, value, func, key_chains, to_apply,
                                     prune_unapplied, this_key_chain), n.val, key))
             ELSE IF /\ key_chains # None
                     /\ \/ InList(this_key_chain, key_chains) /\ ~to_apply
                        \/ ~InList(this_key_chain, key_chains) /\ to_apply
             THEN IF prune_unapplied THEN rest(n)
                  ELSE rest(H_Put(HR(n.heap, value), n.val, key))
             ELSE rest(H_Put(HR(n.heap, Call(func, value, this_key_chain)),
                             n.val, key))

\* Container.map
H_map(h, self, func, key_chains, to_apply, prune_unapplied, key_chain) ==
    H_ContainerOf(H_MapLoop(New(h, "dict"), sorted(h[self.id].items), func,
                            key_chains, to_apply, prune_unapplied, key_chain))

RECURSIVE H_prune_key_chain(_, _, _), H_PruneLoop(_, _, _)

\* new_val = value.to_dict(); if len(new_val) > 0: out_dict[key] = value.to_dict()
H_PruneKeep(first, value, out_dict, key) ==
    IF H_truthy(first.heap, first.val)
    THEN H_Put(H_to_dict(first.heap, value), out_dict, key)
    ELSE HR(first.heap, out_dict)

\* the loop of prune_key_chain over sorted(self.items()); n holds out_dict
H_PruneLoop(n, its, keys_in_chain) ==
    IF IsRaise(n.val) \/ its = <<>> THEN n
    ELSE LET key == Head(its).k
             value == Head(its).v
             rest(r) == H_PruneLoop(r, Tail(its), keys_in_chain)
         IN  IF H_isinstance_Container(n.heap, value)
             THEN IF key = keys_in_chain[1]
                  THEN IF Len(keys_in_chain) = 1 THEN rest(n)
                       ELSE rest(H_PutIf(H_prune_key_chain(n.heap, value,
                                             join(Tail(keys_in_chain))),
                                         n.val, key))
                  ELSE rest(H_PruneKeep(H_to_dict(n.heap, value), value, n.val, key))
             ELSE IF Len(keys_in_chain) # 1 \/ key # keys_in_chain[1]
             THEN rest(H_Put(HR(n.heap, value), n.val, key))
             ELSE rest(n)

\* Container.prune_key_chain
H_prune_key_chain(h, self, key_chain) ==
    H_ContainerOf(H_PruneLoop(New(h, "dict"), sorted(h[self.id].items),
                              split(key_chain)))

RECURSIVE H_PruneSeqLoop(_, _)

\* the loop of _prune_key_chains_input_as_seq; r holds return_cont
H_PruneSeqLoop(r, kcs) ==
    IF IsRaise(r.val) \/ kcs = <<>> THEN r
    ELSE H_PruneSeqLoop(H_prune_key_chain(r.heap, r.val, Head(kcs)), Tail(kcs))

\* Container._prune_key_chains_input_as_seq
H_prune_key_chains_input_as_seq(h, self, key_chains) ==
    H_PruneSeqLoop(H_copy(h, self), key_chains)

RECURSIVE H_prune_key_chains_input_as_dict(_, _, _, _), H_PruneDictLoop(_, _, _)

\* if ret_cont.shape[0] == 0: del return_cont[k]
H_PruneDictDel(h, return_cont, k, shp) ==
    IF IsRaise(shp) THEN HR(h, shp)
    ELSE IF shp.elems = <<>> THEN HR(h, Raise("IndexError"))
    ELSE IF shp.elems[1] = PyInt(0) THEN H_delitem(h, return_cont, k)
    ELSE HR(h, return_cont)

\* r is the outcome of the recursive call, r.val is ret_cont
H_PruneDictAfter(r, return_cont, k) ==
    IF IsRaise(r.val) THEN r
    ELSE H_PruneDictDel(r.heap, return_cont, k, shape_attr(Deref(r.heap, r.val)))

\* the recursive call on sub, which is return_cont[k]
H_PruneDictNested(n, self, k, v, sub) ==
    IF IsRaise(sub) THEN HR(n.heap, sub)
    ELSE H_PruneDictAfter(H_prune_key_chains_input_as_dict(n.heap, self, v, sub),
                          n.val, k)

\* the loop of _prune_key_chains_input_as_dict over key_chains.items(); n
\* holds return_cont
H_PruneDictLoop(n, self, its) ==
    IF IsRaise(n.val) \/ its = <<>> THEN n
    ELSE IF isinstance_dict(Head(its).v)
    THEN H_PruneDictLoop(H_PruneDictNested(n, self, Head(its).k, Head(its).v,
                                           H_getitem(n.heap, n.val, Head(its).k)),
                         self, Tail(its))
    ELSE H_PruneDictLoop(H_delitem(n.heap, n.val, Head(its).k), self, Tail(its))

\* Container._prune_key_chains_input_as_dict
H_prune_key_chains_input_as_dict(h, self, key_chains, return_cont) ==
    H_PruneDictLoop(IF return_cont = None THEN H_copy(h, self)
                    ELSE HR(h, return_cont),
                    self, key_chains.items)

\* Container.prune_key_chains (ignore_none left at its default)
H_prune_key_chains(h, self, key_chains) ==
    IF key_chains = None THEN HR(h, self)
    ELSE IF key_chains.type = "list"
    THEN H_prune_key_chains_input_as_seq(h, self, key_chains.elems)
    ELSE IF isinstance_dict(key_chains)
    THEN H_prune_key_chains_input_as_dict(h, self, key_chains, None)
    ELSE IF key_chains.type = "str"
    THEN H_prune_key_chains_input_as_seq(h, self, <<key_chains.val>>)
    ELSE HR(h, Raise("Exception"))

RECURSIVE H_set_at_key_chains(_, _, _, _), H_SetChainsLoop(_, _, _)

\* return_dict[k] = self.set_at_key_chains(v, return_dict[k]); sub is
\* return_dict[k]
H_SetChainsNested(n, self, k, v, sub) ==
    IF IsRaise(sub) THEN HR(n.heap, sub)
    ELSE H_PutItem(H_set_at_key_chains(n.heap, self, v, sub), n.val, k)

\* the loop of set_at_key_chains over target_container.items(); n holds
\* return_dict
H_SetChainsLoop(n, self, its) ==
    IF IsRaise(n.val) \/ its = <<>> THEN n
    ELSE IF isinstance_dict(Head(its).v)
    THEN H_SetChainsLoop(H_SetChainsNested(n, self, Head(its).k, Head(its).v,
                                           H_getitem(n.heap, n.val, Head(its).k)),
                         self, Tail(its))
    ELSE H_SetChainsLoop(H_PutItem(HR(n.heap, Head(its).v), n.val, Head(its).k),
                         self, Tail(its))

\* Container.set_at_key_chains
H_set_at_key_chains(h, self, target_container, return_dict) ==
    H_ContainerOf(H_SetChainsLoop(IF return_dict = None THEN H_copy(h, self)
                                  ELSE HR(h, return_dict),
                                  self, target_container.items))

RECURSIVE H_from_flat_list(_, _, _), H_FromFlatLoop(_, _)

\* an outcome together with what is left of flat_list
WithList(r, flat_list) == [heap |-> r.heap, val |-> r.val, flat_list |-> flat_list]

\* new_dict[key] = r.val
H_FromFlatPut(r, new_dict, key) ==
    IF IsRaise(r.val) THEN r ELSE WithList(H_Put(r, new_dict, key), r.flat_list)

\* the loop of from_flat_list over sorted(self.items()); n holds new_dict and
\* flat_list
H_FromFlatLoop(n, its) ==
    IF IsRaise(n.val) \/ its = <<>> THEN n
    ELSE IF H_isinstance_Container(n.heap, Head(its).v)
    THEN H_FromFlatLoop(H_FromFlatPut(H_from_flat_list(n.heap, Head(its).v,
                                                       n.flat_list),
                                      n.val, Head(its).k), Tail(its))
    ELSE IF n.flat_list = <<>> THEN WithList(HR(n.heap, Raise("IndexError")), <<>>)
    ELSE H_FromFlatLoop(H_FromFlatPut(WithList(HR(n.heap, Head(n.flat_list)),
                                               Tail(n.flat_list)),
                                      n.val, Head(its).k), Tail(its))

\* return Container(new_dict)
H_FromFlatEnd(r) == WithList(H_ContainerOf(r), r.flat_list)

\* Container.from_flat_list
H_from_flat_list(h, self, flat_list) ==
    H_FromFlatEnd(H_FromFlatLoop(WithList(New(h, "dict"), flat_list),
                                 sorted(h[self.id].items)))

RECURSIVE is_jsonable(_)

\* _is_jsonable: json.dumps accepts None, numbers, strs and the lists and
\* dicts of them, and raises TypeError for an array
is_jsonable(x) ==
    IF isinstance_dict(x) THEN \A j \in 1..Len(x.items) : is_jsonable(x.items[j].v)
    ELSE IF x.type \in {"list", "tuple"}
    THEN \A j \in 1..Len(x.elems) : is_jsonable(x.elems[j])
    ELSE x.type \in {"NoneType", "int", "bool", "str"}

\* str(v) of a value that is not a str: the text that represents v
str_of(v) == [type |-> "str", repr |-> v]

RECURSIVE H_to_jsonable(_, _, _), H_JsonLoop(_, _, _)

\* the loop of to_jsonable over return_dict.items(); n holds return_dict
H_JsonLoop(n, self, its) ==
    IF IsRaise(n.val) \/ its = <<>> THEN n
    ELSE IF is_jsonable(Deref(n.heap, Head(its).v)) THEN H_JsonLoop(n, self, Tail(its))
    ELSE IF IsRef(Head(its).v)
    THEN H_JsonLoop(H_PutItem(H_to_jsonable(n.heap, self, Head(its).v),
                              n.val, Head(its).k), self, Tail(its))
    ELSE H_JsonLoop(H_PutItem(HR(n.heap, str_of(Head(its).v)), n.val, Head(its).k),
                    self, Tail(its))

\* for k, v in return_dict.items(): ...
H_JsonStart(r, self) ==
    IF IsRaise(r.val) THEN r ELSE H_JsonLoop(r, self, r.heap[r.val.id].items)

\* Container.to_jsonable
H_to_jsonable(h, self, return_dict) ==
    H_JsonStart(IF return_dict = None THEN H_copy(h, self) ELSE HR(h, return_dict),
                self)

RECURSIVE H_prune_empty(_, _), H_PruneEmptyLoop(_, _)

\* the loop of prune_empty over sorted(self.items()); n holds out_dict
H_PruneEmptyLoop(n, its) ==
    IF IsRaise(n.val) \/ its = <<>> THEN n
    ELSE IF H_isinstance_Container(n.heap, Head(its).v)
    THEN H_PruneEmptyLoop(H_PutIf(H_prune_empty(n.heap, Head(its).v), n.val,
                                  Head(its).k), Tail(its))
    ELSE H_PruneEmptyLoop(H_Put(HR(n.heap, Head(its).v), n.val, Head(its).k),
                          Tail(its))

\* if len(out_dict): return Container(out_dict); otherwise return None
H_PruneEmptyEnd(r) ==
    IF IsRaise(r.val) THEN r
    ELSE IF Len(r.heap[r.val.id].items) > 0 THEN H_Container(r.heap, r.val)
    ELSE HR(r.heap, None)

\* Container.prune_empty
H_prune_empty(h, self) ==
    H_PruneEmptyEnd(H_PruneEmptyLoop(New(h, "dict"), sorted(h[self.id].items)))

\* value[query] for a value that is not a Container
leaf_index(value, query) ==
    IF IsRef(value) THEN Raise("AttributeError")
    ELSE IF value.type \in {"list", "tuple"}
    THEN (IF Len(value.elems) = 0 THEN value ELSE seq_index(value, query))
    ELSE IF value = None THEN value
    ELSE IF ~is_array(value) THEN Raise("AttributeError")
    ELSE IF value.shape = <<>> THEN value
    ELSE array_index(value, query)

RECURSIVE H_getitem_query(_, _, _), H_GetItemLoop(_, _, _)

\* the loop of __getitem__ over sorted(self.items()); n holds return_dict
H_GetItemLoop(n, its, query) ==
    IF IsRaise(n.val) \/ its = <<>> THEN n
    ELSE IF H_isinstance_Container(n.heap, Head(its).v)
    THEN H_GetItemLoop(H_Put(H_getitem_query(n.heap, Head(its).v, query), n.val,
                             Head(its).k), Tail(its), query)
    ELSE H_GetItemLoop(H_Put(HR(n.heap, leaf_index(Head(its).v, query)), n.val,
                             Head(its).k), Tail(its), query)

\* Container.__getitem__ for a query that is not a str
H_getitem_query(h, self, query) ==
    H_ContainerOf(H_GetItemLoop(New(h, "dict"), sorted(h[self.id].items), query))

RECURSIVE H_to_flat_list(_, _), H_FlatLoop(_, _)

H_FlatLoop(h, its) ==
    IF its = <<>> THEN <<>>
    ELSE (IF H_isinstance_Container(h, Head(its).v) THEN H_to_flat_list(h, Head(its).v)
          ELSE <<Head(its).v>>) \o H_FlatLoop(h, Tail(its))

\* Container.to_flat_list: the items that to_iterator yields
H_to_flat_list(h, self) == H_FlatLoop(h, sorted(h[self.id].items))

----------------------------------------------------------------------------
(* Inputs *)

S_a == <<"a">>

S_b == <<"b">>

S_ab == <<"a", "/", "b">>

\* the values a nested mapping may hold under each top-level key
MValues ==
    [ a   |-> {PyInt(1), dict(<<>>),
               dict(<<Entry(S_f, PyInt(1))>>),
               dict(<<Entry(S_b, PyInt(2)), Entry(S_a, PyInt(1))>>)},
      b   |-> {PyInt(2), dict(<<>>),
               dict(<<Entry(S_a, dict(<<Entry(S_a, PyInt(1))>>))>>)},
      f   |-> {PyInt(1)},
      ab  |-> {PyInt(1)} ]

MKey == [a |-> S_a, b |-> S_b, f |-> S_f, ab |-> S_ab]

\* insertion order of the keys of an input mapping (not sorted)
MOrder == <<"b", "ab", "f", "a">>

RECURSIVE MItems(_, _)
MItems(choice, i) ==
    IF i > Len(MOrder) THEN <<>>
    ELSE LET n == MOrder[i]
         IN  IF choice[n] = None THEN MItems(choice, i + 1)
             ELSE <<Entry(MKey[n], choice[n])>> \o MItems(choice, i + 1)

\* the nested mappings a Container is constructed from
Mappings ==
    {dict(MItems(choice, 1)) :
        choice \in [a : MValues.a \cup {None}, b : MValues.b \cup {None},
                    f : MValues.f \cup {None}, ab : MValues.ab \cup {None}]}

\* the key chains passed to has_key_chain, at_key_chain and prune_key_chain:
\* a, b, a/a, a/b, b/a/a and a//a
KeyChains ==
    {S_a, S_b, join(<<S_a, S_a>>), S_ab, join(<<S_b, S_a, S_a>>),
     join(<<S_a, <<>>, S_a>>)}

\* the key chains and values passed to set_at_key_chain: b, a/b and b/a/b
SetKeyChains == {S_b, S_ab, join(<<S_b, S_a, S_b>>)}

SetValues == {PyInt(3), dict(<<Entry(S_a, PyInt(1))>>)}

\* the key chains that lists of key chains are made of
SelChains == {join(<<S_a, S_a>>), S_b}

MaxChains == 2

MaxSets == 1

ChainLists ==
    {list(kcs) : kcs \in UNION {[1..n -> SelChains] : n \in 0..MaxChains}}

\* the key chains of the leaves of v, depth first in ascending key order
RECURSIVE LeafChains(_, _)
LeafChains(v, prefix) ==
    IF ~isinstance_Container(v) THEN <<join(prefix)>>
    ELSE LET its == sorted(v.items)
         IN  Flatten([i \in 1..Len(its) |-> LeafChains(its[i].v, Append(prefix, its[i].k))])

\* complement(ks): the leaf key chains of self that are not in the list ks
Complement(self, ks) ==
    list(SelectSeq(LeafChains(self, <<>>), LAMBDA kc : ~InList(kc, ks)))

\* the part of a tree that holds the leaves whose paths are in P, as a nested
\* dict
RECURSIVE Restrict(_, _, _), RestrictItems(_, _, _)
RestrictItems(its, prefix, P) ==
    IF its = <<>> THEN <<>>
    ELSE LET path == Append(prefix, Head(its).k)
             sub == Restrict(Head(its).v, path, P)
             rest == RestrictItems(Tail(its), prefix, P)
         IN  IF isinstance_Container(Head(its).v)
             THEN (IF Len(sub.items) > 0 THEN <<Entry(Head(its).k, sub)>> ELSE <<>>) \o rest
             ELSE (IF path \in P THEN <<Entry(Head(its).k, Head(its).v)>> ELSE <<>>) \o rest

Restrict(v, prefix, P) ==
    IF isinstance_Container(v) THEN dict(RestrictItems(v.items, prefix, P)) ELSE v

\* the paths of the leaves of a tree
RECURSIVE PathsOfLeaves(_, _)
PathsOfLeaves(v, prefix) ==
    IF ~isinstance_Container(v) THEN {prefix}
    ELSE UNION {PathsOfLeaves(v.items[i].v, Append(prefix, v.items[i].k)) : i \in 1..Len(v.items)}

\* the key_chains given to map as a nested dict: the parts of the receiver that
\* hold one to MaxChains of its leaves, as a dict and as a Container
ChainDicts(self) ==
    LET paths == PathsOfLeaves(self, <<>>)
        dicts == {Restrict(self, <<>>, P) :
                    P \in {Q \in SUBSET paths : Cardinality(Q) \in 1..MaxChains}}
    IN  dicts \cup {Container(d) : d \in dicts}

\* the lists passed to from_flat_list: the flat list of the receiver itself,
\* and lists of fresh values with as many, one more and one fewer elements
FlatLists(self) ==
    LET fl == to_flat_list(self)
        marks == [i \in 1..(Len(fl) + 1) |-> PyInt(10 + i)]
    IN  {fl, SubSeq(marks, 1, Len(fl)), marks, SubSeq(marks, 1, Len(fl) - 1)}

----------------------------------------------------------------------------
(* The state machine: a Container is constructed from a nested mapping, and *)
(* then each step is one call on it.  op, args and ret record the last     *)
(* call, its arguments and its outcome.                                    *)

\* the last call built or updated the receiver.  Every other call leaves the
\* receiver as it is, so each of them is made once on every receiver: right
\* after the receiver was built or updated.
Fresh == isinstance_Container(cont) /\ op \in {"Container", "set_at_key_chain"}

Init ==
    /\ m \in Mappings
    /\ cont = Container(m)
    /\ op = "Container"
    /\ args = <<>>
    /\ ret = cont
    /\ nsets = 0
    /\ disk = NoFile
    /\ handles = {}
    /\ heap = <<>>

ToDict ==
    /\ Fresh
    /\ op' = "to_dict"
    /\ args' = <<>>
    /\ ret' = to_dict(cont)
    /\ UNCHANGED <<m, cont, nsets, disk, handles, heap>>

\* list(self.to_iterator()): the pairs one run of the generator yields
ToIterator ==
    /\ Fresh
    /\ op' = "to_iterator"
    /\ args' = <<>>
    /\ ret' = list(to_iterator(cont))
    /\ UNCHANGED <<m, cont, nsets, disk, handles, heap>>

ToFlatList ==
    /\ Fresh
    /\ op' = "to_flat_list"
    /\ args' = <<>>
    /\ ret' = list(to_flat_list(cont))
    /\ UNCHANGED <<m, cont, nsets, disk, handles, heap>>

FromFlatList ==
    /\ Fresh
    /\ \E flat_list \in FlatLists(cont) :
        /\ op' = "from_flat_list"
        /\ args' = [flat_list |-> flat_list]
        /\ ret' = from_flat_list(cont, flat_list).ret
    /\ UNCHANGED <<m, cont, nsets, disk, handles, heap>>

Map ==
    /\ Fresh
    /\ \E func \in {"identity", "mark"},
          key_chains \in {None} \cup ChainLists \cup ChainDicts(cont),
          to_apply \in BOOLEAN, prune_unapplied \in BOOLEAN :
        /\ func = "identity" => key_chains = None /\ to_apply /\ ~prune_unapplied
        /\ op' = "map"
        /\ args' = [func |-> func, key_chains |-> key_chains, to_apply |-> to_apply,
                    prune_unapplied |-> prune_unapplied]
        /\ ret' = map(cont, func, key_chains, to_apply, prune_unapplied, <<>>)
    /\ UNCHANGED <<m, cont, nsets, disk, handles, heap>>

HasKeyChain ==
    /\ Fresh
    /\ \E key_chain \in KeyChains :
        /\ op' = "has_key_chain"
        /\ args' = [key_chain |-> key_chain]
        /\ ret' = has_key_chain(cont, key_chain)
    /\ UNCHANGED <<m, cont, nsets, disk, handles, heap>>

AtKeyChain ==
    /\ Fresh
    /\ \E key_chain \in KeyChains :
        /\ op' = "at_key_chain"
        /\ args' = [key_chain |-> key_chain]
        /\ ret' = at_key_chain(cont, key_chain)
    /\ UNCHANGED <<m, cont, nsets, disk, handles, heap>>

\* set_at_key_chain changes the receiver in place and returns it; when it
\* raises, nothing has been assigned yet
SetAtKeyChain ==
    /\ Fresh
    /\ nsets < MaxSets
    /\ \E key_chain \in SetKeyChains, val \in SetValues :
        /\ op' = "set_at_key_chain"
        /\ args' = [key_chain |-> key_chain, val |-> val, before |-> cont]
        /\ ret' = set_at_key_chain(cont, key_chain, val)
        /\ cont' = IF IsRaise(ret') THEN cont ELSE ret'
    /\ nsets' = nsets + 1
    /\ UNCHANGED <<m, disk, handles, heap>>

PruneKeyChain ==
    /\ Fresh
    /\ \E key_chain \in KeyChains :
        /\ op' = "prune_key_chain"
        /\ args' = [key_chain |-> key_chain]
        /\ ret' = prune_key_chain(cont, key_chain)
    /\ UNCHANGED <<m, cont, nsets, disk, handles, heap>>

AtKeyChains ==
    /\ Fresh
    /\ \E key_chains \in ChainLists :
        /\ op' = "at_key_chains"
        /\ args' = [key_chains |-> key_chains]
        /\ ret' = at_key_chains(cont, key_chains)
    /\ UNCHANGED <<m, cont, nsets, disk, handles, heap>>

\* prune_key_chains, called on the receiver or on the container that
\* at_key_chains has just returned
PruneKeyChains ==
    /\ \E recv \in {"cont", "ret"} :
       \E key_chains \in IF recv = "cont" THEN ChainLists \cup {None}
                          ELSE IF op = "at_key_chains"
                          THEN {args.key_chains, Complement(cont, args.key_chains)}
                          ELSE {} :
        /\ recv = "cont" => Fresh
        /\ recv = "ret" => op = "at_key_chains" /\ isinstance_Container(ret)
        /\ op' = "prune_key_chains"
        /\ args' = [recv |-> recv, key_chains |-> key_chains,
                    prev |-> IF recv = "ret" THEN args ELSE <<>>]
        /\ ret' = prune_key_chains(IF recv = "ret" THEN ret ELSE cont, key_chains)
    /\ UNCHANGED <<m, cont, nsets, disk, handles, heap>>

Next ==
    \/ ToIterator
    \/ ToDict
    \/ ToFlatList
    \/ FromFlatList
    \/ Map
    \/ HasKeyChain
    \/ AtKeyChain
    \/ SetAtKeyChain
    \/ PruneKeyChain
    \/ AtKeyChains
    \/ PruneKeyChains

Spec == Init /\ [][Next]_vars

----------------------------------------------------------------------------
(* The state machine of the containers of arrays *)

\* the array of the given shape holding 1, 2, ...
ArrayOf(shape) == Array(shape, [i \in 1..Prod(shape) |-> i])

ArrValues ==
    [ a |-> {PyInt(1), ArrayOf(<<>>), ArrayOf(<<1>>), ArrayOf(<<2>>), ArrayOf(<<4>>),
             ArrayOf(<<0>>), ArrayOf(<<2, 2>>), ArrayOf(<<1, 2>>)},
      b |-> {ArrayOf(<<2>>), ArrayOf(<<4>>), ArrayOf(<<2, 1>>), dict(<<>>),
             dict(<<Entry(S_a, ArrayOf(<<2>>))>>),
             dict(<<Entry(S_b, ArrayOf(<<1>>)), Entry(S_a, ArrayOf(<<4>>))>>)},
      f |-> {ArrayOf(<<1>>), ArrayOf(<<2>>), ArrayOf(<<4>>)},
      ab |-> {} ]

ArrMappings ==
    {dict(MItems(choice, 1)) :
        choice \in [a : ArrValues.a \cup {None}, b : ArrValues.b \cup {None},
                    f : ArrValues.f \cup {None}, ab : {None}]}

Axes == {0, 1}

DimSizes == {None, PyInt(1), PyInt(2)}

InitArr ==
    /\ m \in ArrMappings
    /\ cont = Container(m)
    /\ op = "Container"
    /\ args = <<>>
    /\ ret = cont
    /\ nsets = 0
    /\ disk = NoFile
    /\ handles = {}
    /\ heap = <<>>

Shape ==
    /\ Fresh
    /\ op' = "shape"
    /\ args' = <<>>
    /\ ret' = get_shape(cont)
    /\ UNCHANGED <<m, cont, nsets, disk, handles, heap>>

Concat ==
    /\ Fresh
    /\ \E dim \in Axes :
        /\ op' = "concat"
        /\ args' = [containers |-> <<cont, cont>>, dim |-> dim]
        /\ ret' = concat(<<cont, cont>>, dim)
    /\ UNCHANGED <<m, cont, nsets, disk, handles, heap>>

\* unstack, called on the receiver or on the container that concat has just
\* returned
Unstack ==
    /\ \E recv \in {"cont", "ret"}, axis \in Axes, keepdims \in BOOLEAN,
          dim_size \in DimSizes :
        /\ recv = "cont" => Fresh
        /\ recv = "ret" => op = "concat" /\ isinstance_Container(ret)
        /\ op' = "unstack"
        /\ args' = [recv |-> recv, axis |-> axis, keepdims |-> keepdims,
                    dim_size |-> dim_size,
                    prev |-> IF recv = "ret" THEN args ELSE <<>>]
        /\ ret' = unstack(IF recv = "ret" THEN ret ELSE cont, axis, keepdims, dim_size)
    /\ UNCHANGED <<m, cont, nsets, disk, handles, heap>>

SeedValues == {None, PyInt(0), PyInt(1)}

\* the values ivy.random.randint may give
Drawn == {PyInt(1), PyInt(2)}

ShuffleChains == {None, list(<<S_a>>), list(<<join(<<S_b, S_a>>), S_f>>)}

\* the generator of the backend before the call
Unseeded == Backend(Rng(0, 0), <<>>)

Shuffle ==
    /\ Fresh
    /\ \E seed_value \in SeedValues, key_chains \in ShuffleChains,
          to_apply \in BOOLEAN, prune_unapplied \in BOOLEAN, drawn \in Drawn :
        LET r == shuffle(cont, seed_value, key_chains, to_apply, prune_unapplied,
                         <<>>, drawn, Unseeded)
        IN  /\ key_chains = None => to_apply /\ ~prune_unapplied
            /\ op' = "shuffle"
            /\ args' = [seed_value |-> seed_value, key_chains |-> key_chains,
                        to_apply |-> to_apply, prune_unapplied |-> prune_unapplied,
                        drawn |-> IF seed_value = None THEN drawn ELSE None,
                        calls |-> r.be.calls]
            /\ ret' = r.ret
    /\ UNCHANGED <<m, cont, nsets, disk, handles, heap>>

\* the sequence s in the opposite order
Reversed(s) == [i \in 1..Len(s) |-> s[Len(s) + 1 - i]]

\* a nested dict with the key structure of v that stores, for every array of
\* v, the shape that holds all its elements along one axis; the keys are
\* inserted in ascending order, or in descending order
RECURSIVE TargetShapes(_, _)
TargetShapes(v, descending) ==
    IF isinstance_Container(v)
    THEN LET its == [i \in 1..Len(v.items) |->
                        Entry(sorted(v.items)[i].k,
                              TargetShapes(sorted(v.items)[i].v, descending))]
         IN  dict(IF descending THEN Reversed(its) ELSE its)
    ELSE IF is_array(v) THEN list(<<PyInt(Prod(v.shape))>>)
    ELSE list(<<PyInt(1)>>)

ReshapeLike ==
    /\ Fresh
    /\ \E descending \in BOOLEAN :
        /\ op' = "reshape_like"
        /\ args' = [target_container |-> TargetShapes(cont, descending)]
        /\ ret' = reshape_like(cont, TargetShapes(cont, descending), None)
    /\ UNCHANGED <<m, cont, nsets, disk, handles, heap>>

NextArr ==
    \/ ReshapeLike
    \/ Shape
    \/ Concat
    \/ Unstack
    \/ Shuffle

SpecArr == InitArr /\ [][NextArr]_vars

----------------------------------------------------------------------------
(* The state machine of the containers of arrays held on devices *)

Cpu == <<"c", "p", "u">>

Gpu == <<"g", "p", "u", ":", "0">>

DevValues ==
    [ a |-> {PyInt(1), ArrayOn(<<2>>, Cpu), ArrayOn(<<2>>, Gpu), ArrayOn(<<>>, Cpu)},
      b |-> {ArrayOn(<<2>>, Cpu), ArrayOn(<<1>>, Gpu), dict(<<>>),
             dict(<<Entry(S_a, ArrayOn(<<2>>, Cpu))>>),
             dict(<<Entry(S_a, ArrayOn(<<2>>, Gpu)), Entry(S_b, PyInt(1))>>),
             dict(<<Entry(S_b, list(<<>>))>>)},
      f |-> {ArrayOn(<<1>>, Cpu), ArrayOn(<<1>>, Gpu), str(Cpu)},
      ab |-> {} ]

DevMappings ==
    {dict(MItems(choice, 1)) :
        choice \in [a : DevValues.a \cup {None}, b : DevValues.b \cup {None},
                    f : DevValues.f \cup {None}, ab : {None}]}

InitDev ==
    /\ m \in DevMappings
    /\ cont = Container(m)
    /\ op = "Container"
    /\ args = <<>>
    /\ ret = cont
    /\ nsets = 0
    /\ disk = NoFile
    /\ handles = {}
    /\ heap = <<>>

DevStr ==
    /\ Fresh
    /\ op' = "dev_str"
    /\ args' = <<>>
    /\ ret' = get_dev_str(cont)
    /\ UNCHANGED <<m, cont, nsets, disk, handles, heap>>

NextDev == DevStr

SpecDev == InitDev /\ [][NextDev]_vars

----------------------------------------------------------------------------
(* The state machine of reduce: a list of Containers is constructed, and    *)
(* reduce is called on it.  m is the list of the nested mappings and cont   *)
(* the list of the Containers.                                              *)

RedMappings ==
    { dict(<<>>),
      dict(<<Entry(S_a, PyInt(1))>>),
      dict(<<Entry(S_a, PyInt(2))>>),
      dict(<<Entry(S_a, PyInt(1)), Entry(S_b, PyInt(2))>>),
      dict(<<Entry(S_a, PyInt(1)), Entry(S_b, PyInt(3))>>),
      dict(<<Entry(S_a, dict(<<>>))>>),
      dict(<<Entry(S_a, dict(<<Entry(S_b, PyInt(1))>>))>>),
      dict(<<Entry(S_a, dict(<<Entry(S_b, PyInt(2))>>)), Entry(S_b, PyInt(3))>>),
      dict(<<Entry(S_a, dict(<<Entry(S_b, PyInt(1)), Entry(S_a, PyInt(3))>>)),
             Entry(S_b, PyInt(3))>>) }

MaxTrees == 2

Reductions == {"first", "no_twos", "ints"}

InitRed ==
    /\ m \in UNION {[1..n -> RedMappings] : n \in 1..MaxTrees}
    /\ cont = [i \in 1..Len(m) |-> Container(m[i])]
    /\ op = "Container"
    /\ args = <<>>
    /\ ret = cont
    /\ nsets = 0
    /\ disk = NoFile
    /\ handles = {}
    /\ heap = <<>>

Reduce ==
    /\ op = "Container"
    /\ \E reduction \in Reductions :
        /\ op' = "reduce"
        /\ args' = [containers |-> cont, reduction |-> reduction]
        /\ ret' = reduce(cont, reduction)
    /\ UNCHANGED <<m, cont, nsets, disk, handles, heap>>

NextRed == Reduce

SpecRed == InitRed /\ [][NextRed]_vars

----------------------------------------------------------------------------
(* The state machine of the h5 file: a Container of arrays is constructed   *)
(* and written to the file at H5Path, once or several times.  disk is the   *)
(* content of the file, handles the file handles that are open.             *)

H5Path == "f.h5"

H5Values ==
    [ a |-> {ArrayOf(<<2>>), ArrayOf(<<3>>), ArrayOf(<<2, 2>>)},
      b |-> {ArrayOf(<<1>>), ArrayOf(<<3>>), ArrayOf(<<>>),
             dict(<<Entry(S_a, ArrayOf(<<3>>))>>),
             dict(<<Entry(S_b, ArrayOf(<<2>>)), Entry(S_a, ArrayOf(<<1>>))>>)},
      f |-> {},
      ab |-> {} ]

H5Mappings ==
    {dict(MItems(choice, 1)) :
        choice \in [a : H5Values.a \cup {None}, b : H5Values.b \cup {None},
                    f : {None}, ab : {None}]}

StartingIndices == {0, 1, 2}

MaxBatchSizes == {None, PyInt(0), PyInt(2), PyInt(4)}

MaxWrites == 2

InitH5 ==
    /\ m \in H5Mappings
    /\ cont = Container(m)
    /\ op = "Container"
    /\ args = <<>>
    /\ ret = cont
    /\ nsets = 0
    /\ disk = NoFile
    /\ handles = {}
    /\ heap = <<>>

\* self.to_disk_as_hdf5(H5Path, starting_index, 'a', max_batch_size).  The
\* call opens the file and does not close it: when it returns, the handle is
\* open unless the garbage collector has already reclaimed the File object;
\* when it raises, the traceback keeps the frame and with it the File alive.
ToDiskAsHdf5 ==
    /\ op = "Container" \/ (op = "to_disk_as_hdf5" /\ args.n < MaxWrites)
    /\ \E starting_index \in StartingIndices, max_batch_size \in MaxBatchSizes,
          collected \in BOOLEAN :
        LET h5_obj == h5py_File(disk)
            handle == [path |-> H5Path, n |-> IF op = "Container" THEN 1 ELSE args.n + 1]
            r == to_disk_as_hdf5(cont, h5_obj, starting_index, max_batch_size)
        IN  /\ op' = "to_disk_as_hdf5"
            /\ args' = [n |-> handle.n, starting_index |-> starting_index,
                        max_batch_size |-> max_batch_size, before |-> h5_obj]
            /\ ret' = r.exc
            /\ disk' = r.h5
            /\ handles' = IF collected /\ r.exc = None THEN handles
                          ELSE handles \cup {handle}
    /\ UNCHANGED <<m, cont, nsets, heap>>

NextH5 == ToDiskAsHdf5

SpecH5 == InitH5 /\ [][NextH5]_vars

----------------------------------------------------------------------------
(* The state machine of the objects: a Container is constructed from the   *)
(* objects of a nested mapping, and then each step is one call on it.      *)
(* heap holds every object made so far, cont refers to the Container, ret  *)
(* is what the last call returned, args.heap is the heap before the call   *)
(* and args.n the number of calls made.                                    *)

A2 == Array(<<2>>, <<1, 2>>)

\* the nested mappings: {a: {b: A2, a: 1}, b: {a: {a: 1}}},
\* {a: 1, b: {a: {a: A2}}}, {a: {b: A2, a: A2}, b: A2}, {a: {}, b: 2} and
\* {b: {a: {}}, a/b: 1}
HeapMappings ==
    {dict(<<Entry(S_a, dict(<<Entry(S_b, A2), Entry(S_a, PyInt(1))>>)),
            Entry(S_b, dict(<<Entry(S_a, dict(<<Entry(S_a, PyInt(1))>>))>>))>>),
     dict(<<Entry(S_a, PyInt(1)),
            Entry(S_b, dict(<<Entry(S_a, dict(<<Entry(S_a, A2)>>))>>))>>),
     dict(<<Entry(S_a, dict(<<Entry(S_b, A2), Entry(S_a, A2)>>)),
            Entry(S_b, A2)>>),
     dict(<<Entry(S_a, dict(<<>>)), Entry(S_b, PyInt(2))>>),
     dict(<<Entry(S_b, dict(<<Entry(S_a, dict(<<>>))>>)),
            Entry(S_ab, PyInt(1))>>)}

\* the key chains passed to at_key_chain and prune_key_chain: a, b, a/b, b/a
HeapKeyChains == {S_a, S_b, S_ab, join(<<S_b, S_a>>)}

\* the lists of key chains passed to at_key_chains and prune_key_chains:
\* [], [b], [a/a, b], [b, b/a] and [a, a/b]; the second chain of the last
\* two runs through the node of the first
HeapChainLists ==
    {list(<<>>), list(<<S_b>>), list(<<join(<<S_a, S_a>>), S_b>>),
     list(<<S_b, join(<<S_b, S_a>>)>>), list(<<S_a, S_ab>>)}

\* key chains in dict form: {a: None}, {a: {b: None}} and
\* {b: {a: None}, a: None}
HeapChainDicts ==
    {dict(<<Entry(S_a, None)>>),
     dict(<<Entry(S_a, dict(<<Entry(S_b, None)>>))>>),
     dict(<<Entry(S_b, dict(<<Entry(S_a, None)>>)), Entry(S_a, None)>>)}

\* the keys passed to slice_via_key
SliceKeys == {S_a, S_b}

\* the targets passed to set_at_key_chains: {a: 9}, {a: {b: 9}},
\* {b: {a: {a: 9}}, a: 9} and {a: {}}
HeapTargets ==
    {dict(<<Entry(S_a, PyInt(9))>>),
     dict(<<Entry(S_a, dict(<<Entry(S_b, PyInt(9))>>))>>),
     dict(<<Entry(S_b, dict(<<Entry(S_a, dict(<<Entry(S_a, PyInt(9))>>))>>)),
            Entry(S_a, PyInt(9))>>),
     dict(<<Entry(S_a, dict(<<>>))>>)}

\* the queries of indexing: [0] and [1:2]
HeapQueries == {Query(0, 0, FALSE), Query(0, 1, TRUE)}

\* the lists passed to from_flat_list: the flat list of the receiver itself,
\* and lists of fresh values with as many, one more and one fewer elements
HeapFlatLists(h, self) ==
    LET fl == H_to_flat_list(h, self)
        marks == [i \in 1..(Len(fl) + 1) |-> PyInt(10 + i)]
    IN  {fl, SubSeq(marks, 1, Len(fl)), marks, SubSeq(marks, 1, Len(fl) - 1)}

MaxCalls == 3

InitHeap ==
    /\ m \in HeapMappings
    /\ heap = H_ContainerOf(Store(<<>>, m)).heap
    /\ cont = H_ContainerOf(Store(<<>>, m)).val
    /\ op = "Container"
    /\ args = [heap |-> <<>>, n |-> 0]
    /\ ret = cont
    /\ nsets = 0
    /\ disk = NoFile
    /\ handles = {}

Reads == {"at_key_chain", "at_key_chains", "slice_via_key"}

\* a further call may follow the construction and a set_at_key_chain
Settled == op \in {"Container", "set_at_key_chain"} /\ args.n < MaxCalls

\* the call name on cont with the arguments a, which gives the outcome r
HeapCall(name, a, r) ==
    /\ op' = name
    /\ args' = a @@ [heap |-> heap, n |-> args.n + 1]
    /\ heap' = r.heap
    /\ ret' = r.val
    /\ UNCHANGED <<m, cont, nsets, disk, handles>>

HeapAtKeyChain ==
    /\ Settled
    /\ \E key_chain \in HeapKeyChains :
        HeapCall("at_key_chain", [key_chain |-> key_chain],
                 HR(heap, H_at_key_chain(heap, cont, key_chain)))

\* the dict form wraps what it has read in new Containers
HeapAtKeyChains ==
    /\ Settled
    /\ \E key_chains \in HeapChainLists \cup HeapChainDicts \cup {None} :
        /\ isinstance_dict(key_chains) => NoCycle(heap, cont)
        /\ HeapCall("at_key_chains", [key_chains |-> key_chains],
                    H_at_key_chains(heap, cont, key_chains))

HeapSliceViaKey ==
    /\ Settled
    /\ NoCycle(heap, cont)
    /\ \E slice_key \in SliceKeys :
        HeapCall("slice_via_key", [slice_key |-> slice_key],
                 H_slice_via_key(heap, cont, slice_key))

\* the value set is a number, a new plain dict, or the node that the last
\* call has read
HeapSetAtKeyChain ==
    /\ op \in {"Container"} \cup Reads
    /\ args.n < MaxCalls
    /\ \E key_chain \in SetKeyChains,
          val \in SetValues \cup (IF op \in Reads /\ IsRef(ret) THEN {ret} ELSE {}) :
        HeapCall("set_at_key_chain", [key_chain |-> key_chain, val |-> val],
                 H_set_at_key_chain(Store(heap, val).heap, cont, key_chain,
                                    Store(heap, val).val))

HeapMap ==
    /\ Settled
    /\ NoCycle(heap, cont)
    /\ \E key_chains \in {None, list(<<join(<<S_a, S_a>>)>>)},
          to_apply \in BOOLEAN, prune_unapplied \in BOOLEAN :
        HeapCall("map", [key_chains |-> key_chains, to_apply |-> to_apply,
                         prune_unapplied |-> prune_unapplied],
                 H_map(heap, cont, "mark", key_chains, to_apply, prune_unapplied,
                       <<>>))

HeapPruneKeyChain ==
    /\ Settled
    /\ NoCycle(heap, cont)
    /\ \E key_chain \in HeapKeyChains :
        HeapCall("prune_key_chain", [key_chain |-> key_chain],
                 H_prune_key_chain(heap, cont, key_chain))

HeapPruneKeyChains ==
    /\ Settled
    /\ NoCycle(heap, cont)
    /\ \E key_chains \in HeapChainLists \cup HeapChainDicts \cup {None} :
        HeapCall("prune_key_chains", [key_chains |-> key_chains],
                 H_prune_key_chains(heap, cont, key_chains))

HeapSetAtKeyChains ==
    /\ Settled
    /\ NoCycle(heap, cont)
    /\ \E target_container \in HeapTargets :
        HeapCall("set_at_key_chains", [target_container |-> target_container],
                 H_set_at_key_chains(heap, cont, target_container, None))

HeapFromFlatList ==
    /\ Settled
    /\ NoCycle(heap, cont)
    /\ \E flat_list \in HeapFlatLists(heap, cont) :
        HeapCall("from_flat_list", [flat_list |-> flat_list],
                 H_from_flat_list(heap, cont, flat_list))

HeapToJsonable ==
    /\ Settled
    /\ NoCycle(heap, cont)
    /\ HeapCall("to_jsonable", <<>>, H_to_jsonable(heap, cont, None))

HeapPruneEmpty ==
    /\ Settled
    /\ NoCycle(heap, cont)
    /\ HeapCall("prune_empty", <<>>, H_prune_empty(heap, cont))

HeapGetItem ==
    /\ Settled
    /\ NoCycle(heap, cont)
    /\ \E query \in HeapQueries :
        HeapCall("getitem", [query |-> query], H_getitem_query(heap, cont, query))

NextHeap ==
    \/ HeapAtKeyChain
    \/ HeapAtKeyChains
    \/ HeapSliceViaKey
    \/ HeapSetAtKeyChain
    \/ HeapMap
    \/ HeapPruneKeyChain
    \/ HeapPruneKeyChains
    \/ HeapSetAtKeyChains
    \/ HeapFromFlatList
    \/ HeapToJsonable
    \/ HeapPruneEmpty
    \/ HeapGetItem

SpecHeap == InitHeap /\ [][NextHeap]_vars

----------------------------------------------------------------------------
(* Trees as the claims speak of them *)

Missing == [type |-> "missing"]

\* the node reached from v by successive child lookup along path
RECURSIVE NodeAt(_, _)
NodeAt(v, path) ==
    IF path = <<>> THEN v
    ELSE IF ~isinstance_dict(v) THEN Missing
    ELSE IF Head(path) \notin dict_keys(v) THEN Missing
    ELSE NodeAt(dict_getitem(v, Head(path)), Tail(path))

\* the leaves of a tree, a leaf being any value that is not a Container
RECURSIVE Leaves(_, _)
Leaves(v, prefix) ==
    IF ~isinstance_Container(v) THEN {[path |-> prefix, val |-> v]}
    ELSE UNION {Leaves(v.items[i].v, Append(prefix, v.items[i].k)) : i \in 1..Len(v.items)}

\* the leaves, a leaf being any value that is not a mapping
RECURSIVE PureLeaves(_, _)
PureLeaves(v, prefix) ==
    IF ~isinstance_dict(v) THEN {[path |-> prefix, val |-> v]}
    ELSE UNION {PureLeaves(v.items[i].v, Append(prefix, v.items[i].k)) : i \in 1..Len(v.items)}

\* the paths of the Containers below the root
RECURSIVE BranchPaths(_, _)
BranchPaths(v, prefix) ==
    IF ~isinstance_Container(v) THEN {}
    ELSE (IF prefix = <<>> THEN {} ELSE {prefix}) \cup
         UNION {BranchPaths(v.items[i].v, Append(prefix, v.items[i].k)) : i \in 1..Len(v.items)}

\* v with the keys of every mapping in ascending order
RECURSIVE Canon(_)
Canon(v) ==
    IF ~isinstance_dict(v) THEN v
    ELSE [v EXCEPT !.items = sorted([i \in 1..Len(v.items) |->
                                Entry(v.items[i].k, Canon(v.items[i].v))])]

\* v as a nested mapping: keys in ascending order, Container and dict alike
RECURSIVE Pure(_)
Pure(v) ==
    IF ~isinstance_dict(v) THEN v
    ELSE dict(sorted([i \in 1..Len(v.items) |-> Entry(v.items[i].k, Pure(v.items[i].v))]))

\* the key structure of v, leaf values left out
RECURSIVE Topology(_)
Topology(v) ==
    IF ~isinstance_dict(v) THEN [type |-> "leaf"]
    ELSE dict(sorted([i \in 1..Len(v.items) |-> Entry(v.items[i].k, Topology(v.items[i].v))]))

IsPrefix(p, q) == Len(p) <= Len(q) /\ SubSeq(q, 1, Len(p)) = p

\* no key of the nested mapping v contains '/'
RECURSIVE PlainKeys(_)
PlainKeys(v) ==
    isinstance_dict(v) =>
        \A i \in 1..Len(v.items) : ~HasSlash(v.items[i].k) /\ PlainKeys(v.items[i].v)

\* no value of the nested mapping v that is not a mapping is stored under '_f'
RECURSIVE NoReservedLeaf(_)
NoReservedLeaf(v) ==
    isinstance_dict(v) =>
        \A i \in 1..Len(v.items) :
            /\ v.items[i].k = S_f => isinstance_dict(v.items[i].v)
            /\ NoReservedLeaf(v.items[i].v)

----------------------------------------------------------------------------
(* Construction round trip *)

\* C1 as claimed: for every nested mapping m with string keys,
\* Container(m).to_dict() equals m up to key order.
C1_RoundTripEveryMapping ==
    (nsets = 0 /\ op = "to_dict") => ret = Canon(m)

\* C1, amended: for every nested mapping m in which no key contains '/' and no
\* value that is not a mapping is stored under the key '_f', Container(m)
\* is constructed and Container(m).to_dict() equals m up to key order.
C1_RoundTrip ==
    (nsets = 0 /\ PlainKeys(m) /\ NoReservedLeaf(m)) =>
        /\ isinstance_Container(cont)
        /\ op = "to_dict" => ret = Canon(m)

C1_Witness ==
    /\ nsets = 0 /\ op = "to_dict" /\ PlainKeys(m) /\ NoReservedLeaf(m)
    /\ Len(m.items) >= 2
    /\ \E i \in 1..Len(m.items) : m.items[i].v = dict(<<>>)
    /\ \E p \in PureLeaves(m, <<>>) : Len(p.path) = 3
    /\ ret = Canon(m)

----------------------------------------------------------------------------
(* Flatten and unflatten *)

\* C2: for every tree T, T.from_flat_list(T.to_flat_list()) is a tree with the
\* same topology as T and the same value at every leaf path.
C2_FlattenUnflatten ==
    (op = "from_flat_list" /\ args.flat_list = to_flat_list(cont)) =>
        /\ isinstance_Container(ret)
        /\ Pure(ret) = Pure(cont)

C2_Witness ==
    /\ op = "from_flat_list" /\ args.flat_list = to_flat_list(cont)
    /\ Len(args.flat_list) >= 3
    /\ \E p \in Leaves(cont, <<>>) : Len(p.path) >= 2
    /\ \E i, j \in 1..Len(args.flat_list) : args.flat_list[i] # args.flat_list[j]
    /\ Pure(ret) = Pure(cont)

----------------------------------------------------------------------------
(* map *)

MapIdentityCall ==
    op = "map" /\ args.func = "identity" /\ args.key_chains = None

\* some Container below the root of v is empty
HasEmptyBranch(v) ==
    \E p \in BranchPaths(v, <<>>) : NodeAt(v, p).items = <<>>

\* C3 as claimed: for every tree T, trees with empty branches included,
\* T.map(identity) with no key_chains equals T in topology and leaf values.
C3_MapIdentityEveryTree ==
    MapIdentityCall => Pure(ret) = Pure(cont)

\* C3, amended: for every tree T, T.map(f) with f(value, path) = value and no
\* key_chains returns a tree with the leaves of T, each at its path with its
\* value, in which a branch of T is present exactly when T has a leaf below
\* it; the result equals T in topology and leaf values when T contains no
\* empty branch.
C3_MapIdentity ==
    MapIdentityCall =>
        /\ isinstance_Container(ret)
        /\ PureLeaves(ret, <<>>) = PureLeaves(cont, <<>>)
        /\ \A p \in BranchPaths(cont, <<>>) :
              NodeAt(ret, p) # Missing <=>
                  \E l \in Leaves(cont, <<>>) : IsPrefix(p, l.path)
        /\ ~HasEmptyBranch(cont) => Pure(ret) = Pure(cont)

C3_Witness ==
    /\ MapIdentityCall
    /\ HasEmptyBranch(cont)
    /\ Cardinality(PureLeaves(cont, <<>>)) >= 2
    /\ Pure(ret) # Pure(cont)
    /\ PureLeaves(ret, <<>>) = PureLeaves(cont, <<>>)

\* the leaf l of the receiver was passed to the function "mark"
Applied(l) == NodeAt(ret, l.path) = tuple(<<l.val, str(join(l.path))>>)

\* the selection policy chooses the leaf l
Selected(l) ==
    \/ args.key_chains = None
    \/ in_key_chains(join(l.path), args.key_chains) = Bool(args.to_apply)

\* C10: when key_chains is None f is applied to every leaf; when key_chains is
\* a list of key chains, f is applied to the leaf at accumulated path p exactly
\* when (p is a member of key_chains) equals to_apply.
C10_SelectionPolicy ==
    (op = "map" /\ args.func = "mark") =>
        /\ isinstance_Container(ret)
        /\ \A l \in Leaves(cont, <<>>) : Applied(l) <=> Selected(l)

C10_Witness ==
    /\ op = "map" /\ args.func = "mark"
    /\ args.key_chains # None /\ args.key_chains.type = "list" /\ ~args.to_apply
    /\ \E l1, l2 \in Leaves(cont, <<>>) :
          /\ Selected(l1) /\ Applied(l1) /\ Len(l1.path) >= 2
          /\ ~Selected(l2) /\ ~Applied(l2)

----------------------------------------------------------------------------
(* Key-chain addressing *)

PruneSelectedCall ==
    op = "prune_key_chains" /\ args.recv = "ret"

\* C4 as claimed: for every tree T and every set ks of key chains present in
\* T, T.at_key_chains(ks).prune_key_chains(complement(ks)) is the empty tree.
C4_PruneComplementEmpty ==
    (PruneSelectedCall /\ args.key_chains = Complement(cont, args.prev.key_chains)) =>
        ret = Branch(<<>>)

\* C4, amended: for every tree T and every list ks of key chains present in
\* T, T.at_key_chains(ks).prune_key_chains(ks) is the empty tree.
C4_PruneSelectedEmpty ==
    (PruneSelectedCall /\ args.key_chains = args.prev.key_chains) =>
        ret = Branch(<<>>)

C4_Witness ==
    /\ PruneSelectedCall /\ args.key_chains = args.prev.key_chains
    /\ Len(args.key_chains.elems) = 2
    /\ args.key_chains.elems[1] # args.key_chains.elems[2]
    /\ Cardinality(Leaves(cont, <<>>)) >= 3
    /\ ret = Branch(<<>>)

SetCall == op = "set_at_key_chain"

\* a proper prefix of the key chain resolves, in the tree v, to a value that
\* is not a mapping
LeafOnTheWay(v, keys) ==
    \E j \in 1..(Len(keys) - 1) :
        LET n == NodeAt(v, SubSeq(keys, 1, j))
        IN  n # Missing /\ ~isinstance_dict(n)

\* what C7 says of a call set_at_key_chain(p, v) that has returned
SetPostcondition ==
    LET keys == split(args.key_chain)
    IN  /\ ret = cont
        /\ isinstance_Container(ret)
        /\ at_key_chain(cont, args.key_chain) = args.val
        /\ has_key_chain(cont, args.key_chain) = Bool(TRUE)
        /\ \A j \in 1..(Len(keys) - 1) :
              NodeAt(args.before, SubSeq(keys, 1, j)) = Missing =>
                  /\ isinstance_Container(NodeAt(cont, SubSeq(keys, 1, j)))
                  /\ dict_keys(NodeAt(cont, SubSeq(keys, 1, j))) = {keys[j + 1]}

C8_PruneFrame ==
    op = "prune_key_chain" =>
        LET keys == split(args.key_chain)
        IN  /\ isinstance_Container(ret)
            /\ NodeAt(ret, keys) = Missing
            /\ \A l \in Leaves(cont, <<>>) :
                  ~IsPrefix(keys, l.path) => NodeAt(ret, l.path) = l.val
            /\ \A p \in BranchPaths(cont, <<>>) :
                  NodeAt(ret, p) = Missing =>
                      \/ IsPrefix(keys, p)
                      \/ /\ IsPrefix(p, keys)
                         /\ \A l \in Leaves(cont, <<>>) :
                               IsPrefix(p, l.path) => IsPrefix(keys, l.path)
            /\ NodeAt(cont, keys) = Missing => Pure(ret) = Pure(cont)

\* C9: for every tree T and every string p, T.has_key_chain(p) returns a
\* boolean without raising (also when a proper prefix of p resolves to a leaf
\* rather than a branch), and it is true exactly when every segment of p
\* resolves by successive child lookup.
C9_HasKeyChainTotal ==
    op = "has_key_chain" =>
        ret = Bool(NodeAt(cont, split(args.key_chain)) # Missing)

----------------------------------------------------------------------------
(* Containers of arrays *)

\* every leaf of the tree v is an array
AllArrays(v) == \A l \in Leaves(v, <<>>) : is_array(l.val)

\* the extent of the array x along axis 0, a rank-0 array counting as 1
Extent0(x) == IF x.shape = <<>> THEN 1 ELSE x.shape[1]

\* concat([A, A], 0).unstack(0) has been called, A being the receiver
UnstackOfConcat ==
    /\ op = "unstack" /\ args.recv = "ret" /\ args.prev.dim = 0
    /\ args.axis = 0 /\ ~args.keepdims /\ args.dim_size = None

\* ret is a list of n trees with the topology of the receiver
ListOfTrees(n) ==
    /\ ret.type = "list"
    /\ Len(ret.elems) = n
    /\ \A i \in 1..n : /\ isinstance_Container(ret.elems[i])
                       /\ Topology(ret.elems[i]) = Topology(cont)

\* C5 as claimed: for every tree A whose leaves are all arrays,
\* Container.concat([A, A], 0).unstack(0) is a list of exactly two trees, each
\* with the same topology as A.
C5_ConcatUnstackTwo ==
    (UnstackOfConcat /\ AllArrays(cont)) => ListOfTrees(2)

\* C5, amended: for every tree A with at least one leaf whose leaves are all
\* arrays, Container.concat([A, A], 0).unstack(0) is a list of exactly 2n
\* trees, each with the same topology as A, when every leaf of A has the same
\* extent n along axis 0 (a rank-0 leaf counting as extent 1), hence exactly
\* two trees when n = 1; when two leaves differ in that extent the call
\* raises.
C5_ConcatUnstack ==
    (UnstackOfConcat /\ AllArrays(cont) /\ Leaves(cont, <<>>) # {}) =>
        IF \E l1, l2 \in Leaves(cont, <<>>) : Extent0(l1.val) # Extent0(l2.val)
        THEN IsRaise(ret)
        ELSE \A l \in Leaves(cont, <<>>) : ListOfTrees(2 * Extent0(l.val))

C5_Witness ==
    /\ UnstackOfConcat /\ AllArrays(cont)
    /\ Cardinality(Leaves(cont, <<>>)) >= 2
    /\ \E l \in Leaves(cont, <<>>) : Len(l.path) = 2
    /\ \A l \in Leaves(cont, <<>>) : Extent0(l.val) = 2
    /\ ListOfTrees(4)

\* the leaves _get_shape takes a shape from: arrays of rank 1 and more
ShapedLeaves(v) == {l \in Leaves(v, <<>>) : truthy(shape_lambda(l.val))}

\* the least rank among the shaped leaves of v
MinRank(v) ==
    CHOOSE r \in 1..3 :
        /\ \E l \in ShapedLeaves(v) : Len(l.val.shape) = r
        /\ \A l \in ShapedLeaves(v) : Len(l.val.shape) >= r

\* no shaped leaf of v has extent 0 at a leading position
NoZeroExtent(v) ==
    \A l \in ShapedLeaves(v) : \A i \in 1..MinRank(v) : l.val.shape[i] # 0

\* C6: for every tree with at least one shaped leaf and every leading position
\* i below the minimum rank, shape[i] is d when every shaped leaf has extent d
\* at position i, and shape[i] is None whenever two leaves have different
\* non-zero extents at position i, for any number of leaves.  Stated here of
\* the trees none of whose extents is 0, where the claim leaves no doubt about
\* the expected value.
C6_ConsensusShape ==
    (op = "shape" /\ ShapedLeaves(cont) # {} /\ NoZeroExtent(cont)) =>
        /\ ret.type = "list"
        /\ Len(ret.elems) = MinRank(cont)
        /\ \A i \in 1..MinRank(cont) :
              /\ \A l \in ShapedLeaves(cont) :
                    (\A l2 \in ShapedLeaves(cont) : l2.val.shape[i] = l.val.shape[i])
                        => ret.elems[i] = PyInt(l.val.shape[i])
              /\ (\E l1, l2 \in ShapedLeaves(cont) :
                    /\ l1.val.shape[i] # l2.val.shape[i]
                    /\ l1.val.shape[i] # 0 /\ l2.val.shape[i] # 0)
                        => ret.elems[i] = None

----------------------------------------------------------------------------
(* map: the leaves the selection policy skips *)

MarkCall == op = "map" /\ args.func = "mark"

\* C11: in map, a leaf skipped by the selection policy is absent from the
\* result when prune_unapplied is true and is present with its original value
\* (a mapping stored as a value being compared as a nested mapping) when
\* prune_unapplied is false; a branch is kept in the result only if its mapped
\* sub-result is non-empty.
C11_SkippedLeaves ==
    MarkCall =>
        /\ isinstance_Container(ret)
        /\ \A l \in Leaves(cont, <<>>) :
              ~Selected(l) =>
                  IF args.prune_unapplied THEN NodeAt(ret, l.path) = Missing
                  ELSE /\ NodeAt(ret, l.path) # Missing
                       /\ Pure(NodeAt(ret, l.path)) = Pure(l.val)
        /\ \A p \in BranchPaths(cont, <<>>) :
              NodeAt(ret, p) # Missing <=>
                  \E l \in Leaves(cont, <<>>) :
                      IsPrefix(p, l.path) /\ (Selected(l) \/ ~args.prune_unapplied)

C11_Witness ==
    /\ MarkCall /\ args.prune_unapplied /\ args.key_chains # None
    /\ \E l1, l2 \in Leaves(cont, <<>>) :
          /\ ~Selected(l1) /\ Len(l1.path) >= 2
          /\ NodeAt(ret, l1.path) = Missing
          /\ NodeAt(ret, SubSeq(l1.path, 1, 1)) = Missing
          /\ Selected(l2) /\ Applied(l2)
    /\ \E p \in BranchPaths(cont, <<>>) : NodeAt(ret, p) # Missing

----------------------------------------------------------------------------
(* reduce *)

\* the trees of the list have the same topology at every level
SameTopology(trees) ==
    \A i \in 1..Len(trees) : Topology(trees[i]) = Topology(trees[1])

\* C12: Container.reduce(trees, reduction) fails whenever the trees do not
\* all have identical topology at every level, whichever tree in the list
\* holds the extra key, the missing key, or a branch where another tree has a
\* leaf, and never returns a result for mismatched trees.
C12_ReduceMismatchFails ==
    (op = "reduce" /\ ~SameTopology(cont)) => IsRaise(ret)

\* the values the trees hold at the path, in the order of the list
ValuesAt(trees, path) == [i \in 1..Len(trees) |-> NodeAt(trees[i], path)]

\* the reduction of the call raises at the leaf of the first tree at path
FailsAt(path) ==
    /\ \A i \in 1..Len(cont) : NodeAt(cont[i], path) # Missing
    /\ IsRaise(CallReduction(args.reduction, ValuesAt(cont, path)))

\* C13: when the reduction passed to Container.reduce raises at some leaf,
\* the error that reaches the caller identifies the key chain of the leaf at
\* which the reduction failed: the key chain is one of the texts its message
\* is made of.
C13_ReduceErrorNamesLeaf ==
    (op = "reduce" /\ \E l \in Leaves(cont[1], <<>>) : FailsAt(l.path)) =>
        /\ IsRaise(ret)
        /\ "msg" \in DOMAIN ret
        /\ \E l \in Leaves(cont[1], <<>>) :
              /\ FailsAt(l.path)
              /\ \E i \in 1..Len(ret.msg) : ret.msg[i] = join(l.path)

----------------------------------------------------------------------------
(* to_iterator and from_flat_list *)

\* one pair (full key chain, value) per leaf of v, depth first with the keys
\* in ascending order at every level
RECURSIVE LeafPairs(_, _)
LeafPairs(v, prefix) ==
    IF ~isinstance_Container(v) THEN << <<join(prefix), v>> >>
    ELSE LET its == sorted(v.items)
         IN  Flatten([i \in 1..Len(its) |-> LeafPairs(its[i].v, Append(prefix, its[i].k))])

\* C14: for every tree T, each call of T.to_iterator() yields a finite
\* sequence with exactly one pair per leaf, depth-first with child keys in
\* ascending order at every level, and the first component of each pair is the
\* full slash-delimited key chain of that leaf from the root.
C14_IteratorFullKeyChains ==
    op = "to_iterator" => ret = list(LeafPairs(cont, <<>>))

\* the paths of the leaves of v, depth first with the keys in ascending order
RECURSIVE LeafPaths(_, _)
LeafPaths(v, prefix) ==
    IF ~isinstance_Container(v) THEN <<prefix>>
    ELSE LET its == sorted(v.items)
         IN  Flatten([i \in 1..Len(its) |-> LeafPaths(its[i].v, Append(prefix, its[i].k))])

\* C15: for a tree with L leaves, from_flat_list(values) fails when
\* len(values) < L, and when len(values) >= L it succeeds, assigns values[i]
\* to the i-th leaf in depth-first sorted-key order, and ignores values[L..].
C15_FromFlatListArity ==
    op = "from_flat_list" =>
        LET paths == LeafPaths(cont, <<>>)
            values == args.flat_list
        IN  IF Len(values) < Len(paths) THEN IsRaise(ret)
            ELSE /\ isinstance_Container(ret)
                 /\ \A i \in 1..Len(paths) :
                       Pure(NodeAt(ret, paths[i])) = Pure(values[i])
                 /\ \A l \in Leaves(ret, <<>>) :
                       \E i \in 1..Len(paths) : IsPrefix(paths[i], l.path)
                 /\ BranchPaths(cont, <<>>) \subseteq BranchPaths(ret, <<>>)

C15_Witness ==
    /\ op = "from_flat_list"
    /\ Len(LeafPaths(cont, <<>>)) >= 3
    /\ Len(args.flat_list) = Len(LeafPaths(cont, <<>>)) + 1
    /\ isinstance_Container(ret)
    /\ \E i \in 1..Len(LeafPaths(cont, <<>>)) : Len(LeafPaths(cont, <<>>)[i]) >= 2
    /\ \A i \in 1..Len(LeafPaths(cont, <<>>)) :
          NodeAt(ret, LeafPaths(cont, <<>>)[i]) = args.flat_list[i]

----------------------------------------------------------------------------
(* Writing to an h5 file *)

\* the member of the h5 object g at the path, Missing if there is none
RECURSIVE H5At(_, _)
H5At(g, path) ==
    IF path = <<>> THEN g
    ELSE IF g.type # "group" \/ ~h5_has(g, Head(path)) THEN Missing
    ELSE H5At(h5_get(g, Head(path)), Tail(path))

\* row i (from 0) of an array or dataset
Row(x, i) ==
    SubSeq(x.data, i * Prod(Tail(x.shape)) + 1, (i + 1) * Prod(Tail(x.shape)))

\* the dataset the leaf l is written to, as it was when the call began: the
\* dataset of the file, or the dataset of zeros with `rows` rows the call
\* creates
DatasetBefore(l, rows) ==
    IF H5At(args.before, l.path) = Missing
    THEN create_dataset(<<rows>> \o Tail(l.val.shape))
    ELSE H5At(args.before, l.path)

\* the dataset of leaf l holds the first k rows of the batch at rows
\* s .. s+k-1 and is otherwise as it was when the call began
RowsWritten(l, s, k, rows) ==
    LET after == H5At(disk, l.path)
        before == DatasetBefore(l, rows)
    IN  /\ after # Missing
        /\ after.type = "dataset"
        /\ after.shape = before.shape
        /\ \A i \in 0..(after.shape[1] - 1) :
              Row(after, i) = IF i >= s /\ i < s + k THEN Row(l.val, i - s)
                              ELSE Row(before, i)

\* to_disk_as_hdf5 was called with max_batch_size given and a starting index
\* that is not past it, on a tree whose leaves are all arrays with rows
WriteWithMax ==
    /\ op = "to_disk_as_hdf5"
    /\ args.max_batch_size # None
    /\ args.starting_index <= args.max_batch_size.val
    /\ \A l \in Leaves(cont, <<>>) : is_array(l.val) /\ l.val.shape # <<>>

\* C16: for every leaf written by to_disk_as_hdf5 with batch size b, starting
\* index s and maximum batch size m, exactly min(b, m - s) rows are written:
\* dataset rows s .. s+min(b, m-s)-1 receive the first min(b, m-s) rows of
\* the batch, the remaining batch rows are dropped, and no dataset row outside
\* that range is changed.  Stated of the calls with s <= m, where the number
\* of rows is not negative.
C16_RowsWritten ==
    WriteWithMax =>
        /\ ret = None
        /\ \A l \in Leaves(cont, <<>>) :
              RowsWritten(l, args.starting_index,
                          Min(l.val.shape[1],
                              args.max_batch_size.val - args.starting_index),
                          args.max_batch_size.val)

\* C17: when to_disk_as_hdf5 is called without max_batch_size on a tree with
\* several leaves (possibly of different batch sizes, possibly in nested
\* branches), every dataset that does not yet exist is created with first
\* dimension starting_index + that leaf's own batch size.
C17_DatasetPerLeafSize ==
    (/\ op = "to_disk_as_hdf5"
     /\ args.max_batch_size = None
     /\ \A l \in Leaves(cont, <<>>) : is_array(l.val) /\ l.val.shape # <<>>) =>
        \A l \in Leaves(cont, <<>>) :
            H5At(args.before, l.path) = Missing =>
                /\ H5At(disk, l.path) # Missing
                /\ H5At(disk, l.path).type = "dataset"
                /\ H5At(disk, l.path).shape[1] = args.starting_index + l.val.shape[1]

\* C18: every serialization call that is given a file path has released
\* every file handle it opened by the time it returns, both on success and
\* when it fails part-way.
C18_HandlesReleased ==
    op = "to_disk_as_hdf5" => handles = {}

----------------------------------------------------------------------------
(* Objects: the source of a transform, and the graph of the nodes *)

\* the calls that C19 names; getitem is integer or slice indexing
Transforms ==
    {"map", "prune_key_chain", "prune_key_chains", "set_at_key_chains",
     "at_key_chains", "from_flat_list", "to_jsonable", "prune_empty", "getitem"}

\* C19: no transform mutates its source tree: after map, prune_key_chain,
\* prune_key_chains (list or dict form), set_at_key_chains, at_key_chains,
\* from_flat_list, to_jsonable, prune_empty or integer/slice indexing,
\* whether the call returns or raises, the tree below the receiver has the
\* same topology and the same leaf values as before the call.
C19_SourceUnchanged ==
    op \in Transforms /\ NoCycle(args.heap, cont)
        => /\ NoCycle(heap, cont)
           /\ Deref(heap, cont) = Deref(args.heap, cont)

\* set_at_key_chains({a: {b: 9}}) has returned a tree that differs from its
\* source below the branch a, and prune_key_chains in dict form one without
\* a key of its source
C19_Witness ==
    \/ /\ op = "set_at_key_chains"
       /\ H_isinstance_Container(heap, ret)
       /\ H_isinstance_Container(heap, H_at_key_chain(heap, cont, S_a))
       /\ H_at_key_chain(heap, ret, S_ab) = PyInt(9)
       /\ H_at_key_chain(heap, cont, S_ab) # PyInt(9)
    \/ /\ op = "prune_key_chains"
       /\ isinstance_dict(args.key_chains)
       /\ H_isinstance_Container(heap, ret)
       /\ dict_keys(heap[ret.id]) # dict_keys(heap[cont.id])

\* the Containers of the trees in hand: those reached from the receiver and
\* from the Container that the last call returned
LiveBranches ==
    {i \in ReachFrom(heap, {cont.id} \cup (IF H_isinstance_Container(heap, ret)
                                             THEN {ret.id} ELSE {})) :
        heap[i].type = "Container"}

\* the live Containers that hold object i as a child
ParentsOf(i) == {p \in LiveBranches : i \in Succ(heap, p)}

\* C20: after any sequence of construction, at_key_chain, at_key_chains,
\* slice_via_key and set_at_key_chain calls, where a value set may be a node
\* read before, the node graph is a forest: no branch object is a child of
\* two different branches or of two trees, and none is reachable from itself.
C20_Forest ==
    op \in {"Container", "set_at_key_chain"} \cup Reads
        => \A i \in LiveBranches :
              /\ Cardinality(ParentsOf(i)) <= 1
              /\ i \notin ReachFrom(heap, Succ(heap, i))

----------------------------------------------------------------------------
(* The order of the keys *)

\* the keys of every Container of v are in ascending order as it iterates
RECURSIVE KeysAscending(_)
KeysAscending(v) ==
    isinstance_Container(v) =>
        /\ \A i \in 1..(Len(v.items) - 1) : StrLt(v.items[i].k, v.items[i + 1].k)
        /\ \A i \in 1..Len(v.items) : KeysAscending(v.items[i].v)

\* C21: in every reachable tree, after construction and after any sequence
\* of set_at_key_chain calls and transforms, the keys of every branch are
\* unique and the branch iterates them in ascending lexicographic order.
C21_KeysAscending ==
    /\ KeysAscending(cont)
    /\ isinstance_Container(ret) => KeysAscending(ret)

----------------------------------------------------------------------------
(* unstack *)

\* unstack(axis, dim_size=...) has been called on the receiver, keepdims
\* left at its default
UnstackCall == op = "unstack" /\ args.recv = "cont" /\ ~args.keepdims

\* the number of trees asked for: dim_size, or shape[axis] when it is omitted
UnstackSize ==
    IF args.dim_size # None THEN args.dim_size
    ELSE ShapeAt(get_shape(cont), args.axis)

\* a leaf that indexing carries unchanged: None, a rank-0 array, an empty list
Carried(x) ==
    \/ x = None
    \/ x.type \in {"list", "tuple"} /\ Len(x.elems) = 0
    \/ is_array(x) /\ x.shape = <<>>

\* an array with at least n positions along axis
Indexable(x, axis, n) ==
    is_array(x) /\ Len(x.shape) > axis /\ x.shape[axis + 1] >= n

\* ret is a list of n trees (of none when n is negative) with the topology
\* of the receiver, the leaf at each path of tree i being the leaf of the
\* receiver indexed at position i along axis, or that leaf itself where it is
\* carried unchanged
Unstacked(n) ==
    /\ ListOfTrees(IF n < 0 THEN 0 ELSE n)
    /\ \A i \in 1..n : \A l \in Leaves(cont, <<>>) :
          NodeAt(ret.elems[i], l.path) =
              IF Carried(l.val) THEN l.val ELSE index_axis(l.val, args.axis, i - 1)

----------------------------------------------------------------------------
(* dev_str *)

\* the device tags of the array leaves of the receiver
DevTags == {str(l.val.dev) : l \in {x \in Leaves(cont, <<>>) : is_array(x.val)}}

\* C23: for every tree, the empty tree and the trees with no array leaves
\* included, dev_str returns the common device tag when all the array leaves
\* carry the same tag and None otherwise, and never raises
C23_DevStr ==
    op = "dev_str" =>
        /\ ~IsRaise(ret)
        /\ ret = IF Cardinality(DevTags) = 1 THEN CHOOSE t \in DevTags : TRUE ELSE None

----------------------------------------------------------------------------
(* map with the key chains given as a nested dict *)

\* map is called with a nested dict on a tree whose mappings are all Containers
MapDictForm ==
    /\ op = "map"
    /\ \A l \in Leaves(cont, <<>>) : ~isinstance_dict(l.val)
    /\ args.key_chains # None
    /\ isinstance_dict(args.key_chains)
    /\ args.to_apply

\* the paths of the leaves the nested dict names
Named == {l.path : l \in PureLeaves(args.key_chains, <<>>)}

\* C24: when map is given key_chains as a nested dict that mirrors part of the
\* tree, with to_apply true, f is applied to exactly the leaves the dict names,
\* at any depth, and every other leaf is left untouched (or pruned, under
\* prune_unapplied)
C24_MapDictForm ==
    MapDictForm =>
        /\ ~IsRaise(ret)
        /\ \A l \in Leaves(cont, <<>>) :
              NodeAt(ret, l.path) =
                  IF l.path \in Named THEN Call(args.func, l.val, join(l.path))
                  ELSE IF args.prune_unapplied THEN Missing
                  ELSE l.val

\* the same for the leaves at the top of the tree only
C24_TopLevel ==
    MapDictForm =>
        /\ ~IsRaise(ret)
        /\ \A l \in Leaves(cont, <<>>) :
              Len(l.path) = 1 =>
                  NodeAt(ret, l.path) =
                      IF l.path \in Named THEN Call(args.func, l.val, join(l.path))
                      ELSE IF args.prune_unapplied THEN Missing
                      ELSE l.val

\* the same for a nested dict that is a Container
C24_ContainerForm ==
    (MapDictForm /\ isinstance_Container(args.key_chains)) =>
        /\ ~IsRaise(ret)
        /\ \A l \in Leaves(cont, <<>>) :
              NodeAt(ret, l.path) =
                  IF l.path \in Named THEN Call(args.func, l.val, join(l.path))
                  ELSE IF args.prune_unapplied THEN Missing
                  ELSE l.val

----------------------------------------------------------------------------
(* shape *)

\* C25: the shape property returns a list without raising for every tree:
\* [0] for a tree with no keys and a list for every tree with keys, the trees
\* whose leaves are all scalars or non-arrays and the trees that contain only
\* empty branches included
C25_ShapeIsList ==
    op = "shape" =>
        /\ ret.type = "list"
        /\ Len(cont.items) = 0 => ret = list(<<PyInt(0)>>)

\* the same for the trees with no keys and the trees holding a leaf with a
\* shape that is not empty
C25_ShapeOfTreesWithShapedLeaves ==
    (/\ op = "shape"
     /\ \/ Len(cont.items) = 0
        \/ \E l \in Leaves(cont, <<>>) : truthy(shape_lambda(l.val))) =>
        /\ ret.type = "list"
        /\ Len(cont.items) = 0 => ret = list(<<PyInt(0)>>)

\* the extents at the leading position of the leaves that have a shape
LeadingExtents ==
    {l.val.shape[1] :
        l \in {x \in Leaves(cont, <<>>) : is_array(x.val) /\ Len(x.val.shape) >= 1}}

\* C26: zero is a wildcard in the consensus: when one or more leaves have
\* extent 0 at a leading position and all the other leaves have the same
\* extent d there, shape reports d at that position, whichever leaf comes
\* first in key order
C26_ZeroIsWildcard ==
    op = "shape" =>
        \A d \in LeadingExtents \ {0} :
            LeadingExtents = {0, d} => ret.type = "list" /\ ret.elems[1] = PyInt(d)

----------------------------------------------------------------------------
(* shuffle *)

\* the seed of a call of shuffle: the one given, or the one drawn
SeedOfCall == IF args.seed_value # None THEN args.seed_value ELSE args.drawn

\* the leaf at path is selected by (key_chains, to_apply)
SelectedLeaf(path) ==
    args.key_chains = None \/ (InList(join(path), args.key_chains) <=> args.to_apply)

\* the selected leaves of the receiver, in the order of to_iterator
SelectedLeaves ==
    SelectSeq(LeafPaths(cont, <<>>), SelectedLeaf)

\* the calls of ivy.shuffle among the calls made to the backend
ShuffleCalls == SelectSeq(args.calls, LAMBDA c : c.call = "shuffle")

\* C27: in one call of shuffle the backend is seeded with the same seed value
\* (the one given, or one value drawn once) immediately before the shuffle of
\* every selected leaf at every depth, so that the leaves of equal extent
\* along axis 0 receive the same permutation; the leaves that are not
\* selected are passed through unchanged, or pruned under prune_unapplied
C27_ShuffleSeeded ==
    op = "shuffle" =>
        /\ \A i \in 1..Len(args.calls) :
              IF args.calls[i].call = "seed"
              THEN /\ args.calls[i].arg = SeedOfCall
                   /\ i < Len(args.calls) /\ args.calls[i + 1].call = "shuffle"
              ELSE i > 1 /\ args.calls[i - 1].call = "seed"
        /\ ~IsRaise(ret) =>
              /\ Len(ShuffleCalls) = Len(SelectedLeaves)
              /\ \A i \in 1..Len(SelectedLeaves) :
                    ShuffleCalls[i].arg = NodeAt(cont, SelectedLeaves[i])
              /\ \A l \in Leaves(cont, <<>>) :
                    NodeAt(ret, l.path) =
                        IF SelectedLeaf(l.path)
                        THEN Permuted(l.val, Permutation(Rng(SeedOfCall.val, 0), l.val.shape[1]))
                        ELSE IF args.prune_unapplied THEN Missing
                        ELSE l.val

\* a call with a drawn seed has shuffled, at two depths, two leaves of the
\* same extent that the permutation does not leave in place, and has passed
\* a leaf through
C27_Witness ==
    /\ op = "shuffle"
    /\ ~IsRaise(ret)
    /\ args.seed_value = None
    /\ \E p, q \in {SelectedLeaves[i] : i \in 1..Len(SelectedLeaves)} :
          /\ Len(p) = 1 /\ Len(q) = 2
          /\ NodeAt(cont, p).shape[1] = NodeAt(cont, q).shape[1]
          /\ NodeAt(ret, p) # NodeAt(cont, p)
          /\ NodeAt(ret, q) # NodeAt(cont, q)
    /\ \E l \in Leaves(cont, <<>>) : ~SelectedLeaf(l.path) /\ NodeAt(ret, l.path) = l.val

----------------------------------------------------------------------------
(* reshape_like *)

\* every leaf of the receiver is an array
ArraysOnly == \A l \in Leaves(cont, <<>>) : is_array(l.val)

\* every leaf of the result is the leaf of the receiver at the same key
\* chain, reshaped to the shape the target stores at that key chain
ReshapedLike ==
    /\ isinstance_Container(ret)
    /\ \A l \in Leaves(cont, <<>>) :
          NodeAt(ret, l.path) = backend_reshape(l.val, NodeAt(args.target_container, l.path))

\* C28: T.reshape_like(S) reshapes the leaf at each key chain of T to the
\* shape stored at the same key chain of S, for every S with the same key
\* structure as T, whatever the order in which the keys of S were inserted
C28_ReshapeLike ==
    (op = "reshape_like" /\ ArraysOnly) => ReshapedLike

\* the same for the targets whose keys were inserted in the order of the keys
\* of the receiver
C28_ReshapeLikeSameOrder ==
    (/\ op = "reshape_like"
     /\ ArraysOnly
     /\ NoReservedLeaf(m)
     /\ Canon(args.target_container) = args.target_container) => ReshapedLike

----------------------------------------------------------------------------
(* The mappings of a tree *)

\* C29: in every reachable tree every value that is a mapping is a Container:
\* after the construction from a nested mapping and after any sequence of
\* set_at_key_chain, item assignment and set_at_key_chains whose value is a
\* plain nested mapping
C29_MappingsAreBranches ==
    \A l \in Leaves(cont, <<>>) : ~isinstance_dict(l.val)

\* the same for the trees as constructed
C29_ConstructedMappingsAreBranches ==
    nsets = 0 => \A l \in Leaves(cont, <<>>) : ~isinstance_dict(l.val)

----------------------------------------------------------------------------
(* The two forms of the key chains of prune_key_chains *)

\* the nested dict d with the key chain of the keys ks added
RECURSIVE PutChain(_, _)
PutChain(d, ks) ==
    IF Len(ks) = 1 THEN dict_setitem(d, ks[1], None)
    ELSE dict_setitem(d, ks[1],
            PutChain(IF ks[1] \in dict_keys(d) /\ isinstance_dict(dict_getitem(d, ks[1]))
                     THEN dict_getitem(d, ks[1]) ELSE dict(<<>>),
                     Tail(ks)))

\* the nested-dict form of the key chains of a list
RECURSIVE ChainsAsDict(_)
ChainsAsDict(kcs) ==
    IF kcs = <<>> THEN dict(<<>>)
    ELSE PutChain(ChainsAsDict(SubSeq(kcs, 1, Len(kcs) - 1)), split(kcs[Len(kcs)]))

\* prune_key_chains has been called on the receiver with a list that is not
\* empty
PruneListForm ==
    /\ op = "prune_key_chains"
    /\ args.recv = "cont"
    /\ args.key_chains # None
    /\ Len(args.key_chains.elems) > 0

\* what the nested-dict form of the same key chains gives on the same tree
PrunedByDictForm == prune_key_chains(cont, ChainsAsDict(args.key_chains.elems))

\* C30: prune_key_chains gives the same outcome for the list form and the
\* nested-dict form of the same set of key chains: both calls return equal
\* trees or both fail, also when a key chain is absent from the tree and when
\* the leaves that remain under a partly pruned branch are not arrays
C30_PruneFormsAgree ==
    PruneListForm =>
        IF IsRaise(ret) THEN IsRaise(PrunedByDictForm)
        ELSE ~IsRaise(PrunedByDictForm) /\ Pure(PrunedByDictForm) = Pure(ret)

====
